---- MODULE Spec2Model ----
(***************************************************************************)
(* Starfleet tasking pipeline: the default account index, the account and  *)
(* account/region resolvers, and the Starbase's two fan-out stages.        *)
(***************************************************************************)
EXTENDS Integers, Sequences, FiniteSets, TLC

VARIABLES
    pc,             \* position of the running handler
    snapshot,       \* account_dict: the snapshot document, in document order
    account_ids,    \* StarfleetDefaultAccountIndex.account_ids
    alias_map,      \* StarfleetDefaultAccountIndex.alias_map
    ou_map,         \* StarfleetDefaultAccountIndex.ou_map
    regions_map,    \* StarfleetDefaultAccountIndex.regions_map
    tag_map,        \* StarfleetDefaultAccountIndex.tag_map
    org_roots,      \* what get_org_roots() answers
    lookup,         \* the last lookup made on the index: <<key, answer>>
    loaded_template,    \* the deserialized template handed to the resolvers
    org_root_check,     \* resolve_worker_template_account_regions' parameter
    ScopeToRegions,     \* STARFLEET_CONFIGURATION.config["STARFLEET"]["ScopeToRegions"]
    resolved_accounts,  \* what resolve_worker_template_accounts returned
    account_region_map, \* what resolve_worker_template_account_regions returned
    ship,               \* the worker ship being tasked: strategy and payload class
    template_object,    \* the template as it lies in the template bucket
    original_template,  \* _fan_out_payload_logic's `template`, as fetched and then assigned to
    verified_template,  \* schema.load(template)
    todo,               \* the accounts the fan-out loop has yet to visit, in loop order
    inner,              \* the regions of the current account yet to visit
    current_account,    \* the account of the outer loop of account_region_fanout
    region_order,       \* the order in which a set of regions is iterated
    batch,              \* the batch under construction
    invocation_queue,   \* the calls made on the worker's InvocationQueueUrl, in order
    raised,             \* the exception the handler raised, if any
    event,              \* the EventBridge timed event handed to the Starbase
    configuration,      \* STARFLEET_CONFIGURATION.config[ship_name], for each plugin
    bucket,             \* the keys of the template bucket, in listing order
    need_to_task,       \* process_eventbridge_timed_event's need_to_task, yet to visit
    worker_template_list,   \* the templates listed for the worker being tasked
    start,              \* get_template_batch's `start`
    fanout_queue,       \* the calls made on the FanOutQueueUrl, in order
    plugins,            \* the discovered worker ship plugins: name -> strategy and payload class
    objects,            \* the template bucket: key -> the template stored under it
    records,            \* the records of the delivery the fan-out handler has yet to visit
    s3_records,         \* the nested Records of the current payload yet to visit
    runs,               \* one entry for each _fan_out_payload_logic call made so far
    fail_at,            \* the send_message_batch call that SQS fails, counting from 1 (0: none)
    send_attempts,      \* the send_message_batch calls made so far
    worker_ships,       \* StarfleetWorkerShipLoader._worker_ships: None, or the registry
    got,                \* the outcomes of the calls made on a loader so far, in order
    worker_instance,    \* the worker ship instance: its alert_priority and alert_channel
    alerts,             \* the send_alert calls made on the worker so far, in order
    posted,             \* the calls made on SLACK_CLIENT so far, in order
    account_map,        \* the generator's map of account id -> account blob
    dump_accounts,      \* the document the generator saved to S3: None, or its items
    app_config,         \* StarfleetConfigurationLoader._app_config: None, or the mapping
    configuration_files, \* the .yaml files of the configuration directory, in listing order
    resolved_parents,   \* resolved_parent_map: OU id -> the parent chain resolved for it
    api_outcomes,       \* whether each coming call of the Organizations API succeeds, in order
    parent_calls,       \* the resolve_parents calls made so far: the OU and what came back
    futures,            \* the pooled tasks: task -> pending, failed, or done with its result
    completed           \* the pooled tasks that have completed, in order of completion

indexVars == <<account_ids, alias_map, ou_map, regions_map, tag_map, org_roots>>
resolveVars == <<loaded_template, org_root_check, ScopeToRegions, resolved_accounts, account_region_map>>
fanVars == <<ship, template_object, original_template, verified_template, todo, inner,
             current_account, region_order, batch, invocation_queue, raised>>
timedVars == <<event, configuration, bucket, need_to_task, worker_template_list, start,
               fanout_queue>>
deliveryVars == <<plugins, objects, records, s3_records, runs>>
sendVars == <<fail_at, send_attempts>>
loaderVars == <<worker_ships, got>>
workerVars == <<worker_instance, alerts, posted>>
generatorVars == <<account_map, dump_accounts>>
configVars == <<app_config, configuration_files>>
enrichVars == <<resolved_parents, api_outcomes, parent_calls, futures, completed>>
processVars == <<loaderVars, workerVars, generatorVars, configVars, enrichVars>>
vars == <<pc, snapshot, indexVars, lookup, resolveVars, fanVars, timedVars, deliveryVars,
          sendVars, processVars>>

(***************************************************************************)
(* Bounds                                                                  *)
(***************************************************************************)
MaxAccounts == 3
MaxFanAccounts == 12
MaxTemplates == 11

(***************************************************************************)
(* Strings                                                                 *)
(***************************************************************************)
Upper == <<"A","B","C","D","E","F","G","H","I","J","K","L","M",
           "N","O","P","Q","R","S","T","U","V","W","X","Y","Z">>
LowerLetters == <<"a","b","c","d","e","f","g","h","i","j","k","l","m",
                  "n","o","p","q","r","s","t","u","v","w","x","y","z">>

LowerChar(c) ==
    IF \E i \in 1..26 : Upper[i] = c
    THEN LowerLetters[CHOOSE i \in 1..26 : Upper[i] = c]
    ELSE c

RECURSIVE lower(_)
lower(s) ==
    IF Len(s) = 0 THEN s
    ELSE LowerChar(SubSeq(s, 1, 1)) \o lower(SubSeq(s, 2, Len(s)))

endswith(s, suffix) ==
    /\ Len(s) >= Len(suffix)
    /\ SubSeq(s, Len(s) - Len(suffix) + 1, Len(s)) = suffix

startswith(s, prefix) ==
    /\ Len(s) >= Len(prefix)
    /\ SubSeq(s, 1, Len(prefix)) = prefix

Digits == <<"0","1","2","3","4","5","6","7","8","9">>

RECURSIVE str(_)
str(n) == IF n < 10 THEN Digits[n + 1] ELSE str(n \div 10) \o Digits[(n % 10) + 1]

(***************************************************************************)
(* Python dictionaries are functions; d.get(k, default)                    *)
(***************************************************************************)
EmptyDict == [k \in {} |-> {}]

get(d, k, default) == IF k \in DOMAIN d THEN d[k] ELSE default

setitem(d, k, v) == [x \in DOMAIN d \cup {k} |-> IF x = k THEN v ELSE d[x]]

(***************************************************************************)
(* The snapshot documents the index is built from                          *)
(***************************************************************************)
\* Account ids are fixed-width decimal strings; two digits stand for twelve.
AccountId(i) == IF i < 10 THEN "0" \o str(i) ELSE str(i)
AccountName(i) == "Account " \o str(i)

ROOT == [Id |-> "r-1", Name |-> "ROOT", Type |-> "ROOT"]
OuDev1 == [Id |-> "ou-1", Name |-> "Dev", Type |-> "ORGANIZATIONAL_UNIT"]
OuDev2 == [Id |-> "ou-2", Name |-> "Dev", Type |-> "ORGANIZATIONAL_UNIT"]
OuProd == [Id |-> "ou-3", Name |-> "Prod", Type |-> "ORGANIZATIONAL_UNIT"]

Regions == {"us-east-1", "us-west-1", "eu-west-1"}

\* What an account can look like in the snapshot, apart from its id and name.
ProfileDev ==
    [Parents |-> <<OuDev1, ROOT>>, Regions |-> {"us-east-1", "us-west-1"},
     Tags |-> [k \in {"Env"} |-> "Prod"], IsRoot |-> FALSE]
ProfileProd ==
    [Parents |-> <<OuProd, OuDev1, ROOT>>, Regions |-> {"us-west-1", "eu-west-1"},
     Tags |-> EmptyDict, IsRoot |-> FALSE]
ProfileRoot ==
    [Parents |-> <<ROOT>>, Regions |-> Regions,
     Tags |-> [k \in {"Team"} |-> "Sec"], IsRoot |-> TRUE]

Profiles == {
    ProfileDev,
    [Parents |-> <<OuDev2, ROOT>>, Regions |-> {"us-east-1"},
     Tags |-> [k \in {"env"} |-> "prod"], IsRoot |-> FALSE],
    ProfileProd,
    ProfileRoot,
    [Parents |-> <<OuDev2, ROOT>>, Regions |-> {},
     Tags |-> [k \in {"Env"} |-> "Dev"], IsRoot |-> FALSE] }

Account(i, p) ==
    [Id |-> AccountId(i), Name |-> AccountName(i), Parents |-> p.Parents,
     Regions |-> p.Regions, Tags |-> p.Tags, IsRoot |-> p.IsRoot]

\* Every order of every non-empty choice of at most n of the accounts 1..n.
OrderedIds(n) ==
    { s \in UNION { [1..k -> 1..n] : k \in 1..n } :
        \A i, j \in DOMAIN s : i # j => s[i] # s[j] }

\* The choices in ascending order of id only.
AscendingIds(n) == { s \in OrderedIds(n) : \A i, j \in DOMAIN s : i < j => s[i] < s[j] }

SnapshotsOver(orders) ==
    UNION { { [k \in DOMAIN ids |-> Account(ids[k], ps[k])] :
                ps \in [DOMAIN ids -> Profiles] } : ids \in orders }

Snapshots(n) == SnapshotsOver(OrderedIds(n))

AscSnapshots(n) == SnapshotsOver(AscendingIds(n))

(***************************************************************************)
(* StarfleetDefaultAccountIndex.__init__: the mappings                     *)
(***************************************************************************)
\* The sets held by ou_map are objects: ou_ref maps a key to the object it
\* holds and heap maps an object to its contents, so that two keys holding
\* the same set see each other's additions.
EmptyIndex ==
    [account_ids |-> {}, alias_map |-> EmptyDict, regions_map |-> EmptyDict,
     ou_ref |-> EmptyDict, heap |-> <<>>, tag_map |-> EmptyDict]

RECURSIVE LoadRegions(_, _, _)
LoadRegions(rmap, regions, account_id) ==
    IF regions = {} THEN rmap
    ELSE LET region == CHOOSE r \in regions : TRUE
             mapping == get(rmap, region, {}) \cup {account_id}
         IN LoadRegions(setitem(rmap, region, mapping), regions \ {region}, account_id)

\* self.ou_map.get(key, set()): the object the key holds, or a new empty one.
OuGet(st, key) ==
    IF key \in DOMAIN st.ou_ref
    THEN [obj |-> st.ou_ref[key], heap |-> st.heap]
    ELSE [obj |-> Len(st.heap) + 1, heap |-> Append(st.heap, {})]

LoadOrgUnit(st, org_unit, account_id) ==
    LET ou_id == lower(org_unit.Id)
        ou_name == lower(org_unit.Name)
        g1 == OuGet(st, ou_id)
        g2 == OuGet([st EXCEPT !.heap = g1.heap], ou_name)
        mapping_id == g1.obj
        mapping_name == g2.obj
        heap2 == [g2.heap EXCEPT ![mapping_id] = @ \cup {account_id}]
        heap3 == [heap2 EXCEPT ![mapping_name] = @ \cup {account_id}]
    IN [st EXCEPT !.heap = heap3,
                  !.ou_ref = setitem(setitem(st.ou_ref, ou_id, mapping_id), ou_name, mapping_id)]

RECURSIVE LoadParents(_, _, _)
LoadParents(st, parents, account_id) ==
    IF parents = <<>> THEN st
    ELSE LoadParents(LoadOrgUnit(st, Head(parents), account_id), Tail(parents), account_id)

RECURSIVE LoadTags(_, _, _, _)
LoadTags(tmap, tags, names, account_id) ==
    IF names = {} THEN tmap
    ELSE LET tag_name == CHOOSE n \in names : TRUE
             norm_tag_name == lower(tag_name)
             norm_tag_value == lower(tags[tag_name])
             tag_name_mapping == get(tmap, norm_tag_name, EmptyDict)
             tag_value_mapping == get(tag_name_mapping, norm_tag_value, {}) \cup {account_id}
         IN LoadTags(setitem(tmap, norm_tag_name,
                             setitem(tag_name_mapping, norm_tag_value, tag_value_mapping)),
                     tags, names \ {tag_name}, account_id)

LoadAccount(st, account) ==
    LET account_id == account.Id
        st1 == [st EXCEPT !.account_ids = @ \cup {account_id},
                          !.alias_map = setitem(@, lower(account.Name), account_id),
                          !.regions_map = LoadRegions(@, account.Regions, account_id)]
        st2 == LoadParents(st1, account.Parents, account_id)
    IN [st2 EXCEPT !.tag_map = LoadTags(@, account.Tags, DOMAIN account.Tags, account_id)]

RECURSIVE LoadInventory(_, _)
LoadInventory(st, account_dict) ==
    IF account_dict = <<>> THEN st
    ELSE LoadInventory(LoadAccount(st, Head(account_dict)), Tail(account_dict))

\* ou_map as a reader sees it: each key with the contents of the set it holds.
OuMapOf(st) == [k \in DOMAIN st.ou_ref |-> st.heap[st.ou_ref[k]]]

\* The organization roots are the accounts the snapshot classifies as roots.
OrgRootsOf(account_dict) ==
    { account_dict[i].Id : i \in { j \in DOMAIN account_dict : account_dict[j].IsRoot } }

(***************************************************************************)
(* StarfleetDefaultAccountIndex: the lookups                               *)
(***************************************************************************)
get_accounts_by_ids_Unfiltered(ids) == ids

get_accounts_by_ids(ids) == ids \cap account_ids

get_accounts_by_aliases(aliases) ==
    { alias_map[lower(alias)] : alias \in { a \in aliases : lower(a) \in DOMAIN alias_map } }

get_accounts_by_tag(tag_name, tag_value) ==
    get(get(tag_map, lower(tag_name), EmptyDict), lower(tag_value), {})

get_accounts_by_ou(org_unit) == get(ou_map, lower(org_unit), {})

\* get_accounts_by_regions answering for the regions of the index only.
get_accounts_by_regions_KnownOnly(regions) ==
    [region \in regions \cap DOMAIN regions_map |-> regions_map[region]]

get_accounts_by_regions(regions) == [region \in regions |-> get(regions_map, region, {})]

get_accounts_for_all_regions == regions_map

get_all_accounts == account_ids

get_org_roots == org_roots

(***************************************************************************)
(* Building the index and asking it                                        *)
(***************************************************************************)
OuKeys == {"ou-1", "OU-2", "ou-3", "R-1", "dev", "Dev", "PROD", "Root", "fakeOU"}

IndexLoaded(account_dict) ==
    LET st == LoadInventory(EmptyIndex, account_dict)
    IN /\ account_ids = st.account_ids
       /\ alias_map = st.alias_map
       /\ ou_map = OuMapOf(st)
       /\ regions_map = st.regions_map
       /\ tag_map = st.tag_map
       /\ org_roots = OrgRootsOf(account_dict)

\* No template is being resolved.
NoTemplate == [template_name |-> "none"]

NoShip == [fan_out_strategy |-> "none", payload_template_class |-> "none"]

\* Python's None, and a loader that has loaded nothing yet.
None == [is_none |-> TRUE]

LoaderIdle ==
    /\ worker_ships = None
    /\ got = <<>>

WorkerIdle ==
    /\ worker_instance = None
    /\ alerts = <<>>
    /\ posted = <<>>

GeneratorIdle ==
    /\ account_map = EmptyDict
    /\ dump_accounts = None

ConfigIdle ==
    /\ app_config = None
    /\ configuration_files = <<>>

EnrichIdle ==
    /\ resolved_parents = EmptyDict
    /\ api_outcomes = <<>>
    /\ parent_calls = <<>>
    /\ futures = EmptyDict
    /\ completed = <<>>

ProcessIdle == LoaderIdle /\ WorkerIdle /\ GeneratorIdle /\ ConfigIdle /\ EnrichIdle

DeliveryIdle ==
    /\ ProcessIdle
    /\ plugins = EmptyDict
    /\ objects = EmptyDict
    /\ records = <<>>
    /\ s3_records = <<>>
    /\ runs = <<>>

\* Every send_message_batch call succeeds.
NoSendFails ==
    /\ fail_at = 0
    /\ send_attempts = 0

TimedIdle ==
    /\ DeliveryIdle
    /\ event = [name |-> "None"]
    /\ configuration = EmptyDict
    /\ bucket = <<>>
    /\ need_to_task = <<>>
    /\ worker_template_list = <<>>
    /\ start = 0
    /\ fanout_queue = <<>>

FanIdle ==
    /\ TimedIdle
    /\ NoSendFails
    /\ ship = NoShip
    /\ template_object = EmptyDict
    /\ original_template = EmptyDict
    /\ verified_template = EmptyDict
    /\ todo = <<>>
    /\ inner = <<>>
    /\ current_account = "None"
    /\ region_order = "ascending"
    /\ batch = <<>>
    /\ invocation_queue = <<>>
    /\ raised = "None"

ResolveIdle ==
    /\ loaded_template = NoTemplate
    /\ org_root_check = TRUE
    /\ ScopeToRegions = {}
    /\ resolved_accounts = {}
    /\ account_region_map = EmptyDict

IndexInit ==
    /\ pc = "start"
    /\ snapshot \in Snapshots(MaxAccounts)
    /\ account_ids = {}
    /\ alias_map = EmptyDict
    /\ ou_map = EmptyDict
    /\ regions_map = EmptyDict
    /\ tag_map = EmptyDict
    /\ org_roots = {}
    /\ lookup = <<>>
    /\ ResolveIdle
    /\ FanIdle

\* StarfleetDefaultAccountIndex(): load the snapshot into the mappings.
LoadIndex ==
    /\ pc = "start"
    /\ LET st == LoadInventory(EmptyIndex, snapshot)
       IN /\ account_ids' = st.account_ids
          /\ alias_map' = st.alias_map
          /\ ou_map' = OuMapOf(st)
          /\ regions_map' = st.regions_map
          /\ tag_map' = st.tag_map
          /\ org_roots' = OrgRootsOf(snapshot)
    /\ pc' = "loaded"
    /\ UNCHANGED <<processVars, snapshot, lookup, resolveVars, fanVars, timedVars, deliveryVars,
                   sendVars>>

LookupOu ==
    /\ pc = "loaded"
    /\ \E k \in OuKeys : lookup' = <<"ou", k, get_accounts_by_ou(k)>>
    /\ UNCHANGED <<processVars, pc, snapshot, indexVars, resolveVars, fanVars, timedVars, deliveryVars,
                   sendVars>>

IndexNext == LoadIndex \/ LookupOu

SpecIndex == IndexInit /\ [][IndexNext]_vars

(***************************************************************************)
(* The accounts of the snapshot under an organizational unit               *)
(***************************************************************************)
AccountsUnder(account_dict, k) ==
    { account_dict[i].Id : i \in { j \in DOMAIN account_dict :
        \E p \in DOMAIN account_dict[j].Parents :
            \/ lower(account_dict[j].Parents[p].Id) = lower(k)
            \/ lower(account_dict[j].Parents[p].Name) = lower(k) } }

\* C10: once the index is built, get_accounts_by_ou(k) is, for every key k,
\* exactly the set of accounts that have a parent whose Id or Name
\* lower-cases to lower(k).
C10_ByOuExact ==
    pc = "loaded" =>
        \A k \in OuKeys : get_accounts_by_ou(k) = AccountsUnder(snapshot, k)

(***************************************************************************)
(* resolvers.py                                                            *)
(***************************************************************************)
resolve_account_specification(account_spec) ==
    LET by_ids == get_accounts_by_ids(account_spec.by_ids)
        by_names == get_accounts_by_aliases(account_spec.by_names)
        by_org_units == UNION { get_accounts_by_ou(org_unit) : org_unit \in account_spec.by_org_units }
        by_tags == UNION { get_accounts_by_tag(tag.name, tag.value) : tag \in account_spec.by_tags }
    IN by_ids \cup by_names \cup by_org_units \cup by_tags

resolve_include_account_specification(include_account_spec) ==
    IF include_account_spec.all_accounts
    THEN get_all_accounts
    ELSE resolve_account_specification(include_account_spec)

\* A dictionary is falsy when it is empty.
Truthy(d) == DOMAIN d # {}

resolve_include_exclude_NoExclude(template) ==
    resolve_include_account_specification(template.include_accounts)

resolve_include_exclude(template) ==
    LET included_accounts == resolve_include_account_specification(template.include_accounts)
        excluded_accounts == IF Truthy(template.exclude_accounts)
                             THEN resolve_account_specification(template.exclude_accounts)
                             ELSE {}
    IN included_accounts \ excluded_accounts

resolve_worker_template_accounts_NoRootCheck(template) ==
    resolve_include_exclude(template)

resolve_worker_template_accounts(template) ==
    LET accounts == resolve_include_exclude(template)
    IN IF ~template.operate_in_org_root
       THEN accounts \ get_org_roots
       ELSE accounts

resolve_worker_template_account_regions_NoScope(template, check, scope) ==
    LET accounts == IF check THEN resolve_worker_template_accounts(template)
                    ELSE resolve_include_exclude(template)
        resolved_regions == template.include_regions \ template.exclude_regions
        regions_accounts_map == get_accounts_by_regions(resolved_regions)
    IN [account \in accounts |->
            { region \in DOMAIN regions_accounts_map : account \in regions_accounts_map[region] }]

resolve_worker_template_account_regions(template, check, scope) ==
    LET accounts == IF check THEN resolve_worker_template_accounts(template)
                    ELSE resolve_include_exclude(template)
        excluded_regions == IF template.exclude_regions # {} THEN template.exclude_regions ELSE {}
        resolved_regions == template.include_regions \ excluded_regions
        by_regions == get_accounts_by_regions(resolved_regions)
        regions_accounts_map ==
            IF scope # {}
            THEN [region \in { r \in DOMAIN by_regions : r \in scope } |-> by_regions[region]]
            ELSE by_regions
    IN [account \in accounts |->
            { region \in DOMAIN regions_accounts_map : account \in regions_accounts_map[region] }]

(***************************************************************************)
(* The templates the resolvers are given                                   *)
(***************************************************************************)
Selector(ids, names, ous, tags) ==
    [by_ids |-> ids, by_names |-> names, by_org_units |-> ous, by_tags |-> tags]

Tag(n, v) == [name |-> n, value |-> v]

\* Selectors that name accounts the index may or may not know, by every clause.
Selectors == {
    Selector({"01"}, {}, {}, {}),
    Selector({"02", "99"}, {}, {}, {}),
    Selector({}, {"Account 1", "nonexistent"}, {}, {}),
    Selector({}, {"aCCount 3"}, {}, {}),
    Selector({}, {}, {"ou-1"}, {}),
    Selector({}, {}, {"DEV", "fakeOU"}, {}),
    Selector({}, {}, {"r-1"}, {}),
    Selector({}, {}, {}, {Tag("ENV", "prod")}),
    Selector({}, {}, {}, {Tag("nope", "nope"), Tag("Team", "Sec")}),
    Selector({"03"}, {"Account 2"}, {"Prod"}, {Tag("env", "dev")}),
    Selector({}, {}, {}, {}) }

IncludeSelectors ==
    { [all_accounts |-> FALSE] @@ sel : sel \in Selectors }
    \cup { [all_accounts |-> TRUE] @@ Selector({}, {}, {}, {}),
           [all_accounts |-> TRUE] @@ Selector({"01"}, {}, {}, {}) }

\* ExcludeAccounts is optional and loads as the empty dictionary.
ExcludeSelectors == Selectors \cup {EmptyDict}

AccountTemplates ==
    [include_accounts : IncludeSelectors, exclude_accounts : ExcludeSelectors,
     operate_in_org_root : BOOLEAN, include_regions : {{}}, exclude_regions : {{}}]

ResolveInit ==
    /\ pc = "loaded"
    /\ snapshot \in AscSnapshots(MaxAccounts)
    /\ IndexLoaded(snapshot)
    /\ lookup = <<>>
    /\ loaded_template \in AccountTemplates
    /\ org_root_check = TRUE
    /\ ScopeToRegions = {}
    /\ resolved_accounts = {}
    /\ account_region_map = EmptyDict
    /\ FanIdle

ResolveAccounts ==
    /\ pc = "loaded"
    /\ resolved_accounts' = resolve_worker_template_accounts(loaded_template)
    /\ pc' = "resolved"
    /\ UNCHANGED <<processVars, snapshot, indexVars, lookup, loaded_template, org_root_check,
                   ScopeToRegions, account_region_map, fanVars, timedVars, deliveryVars,
                   sendVars>>

ResolveNext == ResolveAccounts

SpecResolve == ResolveInit /\ [][ResolveNext]_vars

(***************************************************************************)
(* What a selector selects, account by account, as the index answers       *)
(***************************************************************************)
Selects(account_spec, a) ==
    \/ a \in account_spec.by_ids /\ a \in account_ids
    \/ \E n \in account_spec.by_names :
          lower(n) \in DOMAIN alias_map /\ alias_map[lower(n)] = a
    \/ \E k \in account_spec.by_org_units :
          lower(k) \in DOMAIN ou_map /\ a \in ou_map[lower(k)]
    \/ \E t \in account_spec.by_tags :
          /\ lower(t.name) \in DOMAIN tag_map
          /\ lower(t.value) \in DOMAIN tag_map[lower(t.name)]
          /\ a \in tag_map[lower(t.name)][lower(t.value)]

IncludeSelects(template, a) ==
    IF template.include_accounts.all_accounts
    THEN a \in account_ids
    ELSE Selects(template.include_accounts, a)

ExcludeSelects(template, a) ==
    Truthy(template.exclude_accounts) /\ Selects(template.exclude_accounts, a)

\* C6: resolve_worker_template_accounts never returns an organization root
\* when OperateInOrgRoot is false; a root is in the result only if
\* IncludeAccounts selects it, ExcludeAccounts does not, and OperateInOrgRoot
\* is true.
C6_OrgRootGated ==
    pc = "resolved" =>
        /\ ~loaded_template.operate_in_org_root => resolved_accounts \cap org_roots = {}
        /\ \A a \in resolved_accounts \cap org_roots :
              /\ IncludeSelects(loaded_template, a)
              /\ ~ExcludeSelects(loaded_template, a)
              /\ loaded_template.operate_in_org_root

\* An included, not excluded organization root was resolved away.
C6_Witness ==
    /\ pc = "resolved"
    /\ ~loaded_template.operate_in_org_root
    /\ \E a \in org_roots :
          /\ IncludeSelects(loaded_template, a)
          /\ ~ExcludeSelects(loaded_template, a)
          /\ a \notin resolved_accounts
    /\ resolved_accounts # {}

\* C8: with AllAccounts true, the result is every indexed account, minus the
\* organization roots unless OperateInOrgRoot is true, minus the accounts
\* ExcludeAccounts selects.
C8_AllAccounts ==
    (pc = "resolved" /\ loaded_template.include_accounts.all_accounts) =>
        resolved_accounts =
            { a \in account_ids :
                /\ loaded_template.operate_in_org_root \/ a \notin org_roots
                /\ ~ExcludeSelects(loaded_template, a) }

\* AllAccounts with an exclusion that bites and an organization root held back.
C8_Witness ==
    /\ pc = "resolved"
    /\ loaded_template.include_accounts.all_accounts
    /\ ~loaded_template.operate_in_org_root
    /\ org_roots \cap account_ids # {}
    /\ \E a \in account_ids \ org_roots : ExcludeSelects(loaded_template, a)
    /\ resolved_accounts # {}

\* C9: every account the resolver returns is an account of the index, also
\* when the selector names ids, names, OUs or tags the index does not know.
C9_SubsetOfIndex ==
    pc = "resolved" => resolved_accounts \subseteq get_all_accounts

\* A selector naming an unknown id next to a known one was resolved.
C9_Witness ==
    /\ pc = "resolved"
    /\ ~loaded_template.include_accounts.all_accounts
    /\ \E i \in loaded_template.include_accounts.by_ids : i \notin account_ids
    /\ resolved_accounts # {}

(***************************************************************************)
(* Account/region resolution                                               *)
(***************************************************************************)
\* The regions boto3 knows; validation admits only these in a template.
SupportedRegions == Regions \cup {"ap-south-1"}

RegionTemplates ==
    [include_accounts : { [all_accounts |-> TRUE] @@ Selector({}, {}, {}, {}),
                          [all_accounts |-> FALSE] @@ Selector({}, {}, {"DEV", "r-1"}, {}) },
     exclude_accounts : { EmptyDict, Selector({}, {"Account 1", "nonexistent"}, {}, {}) },
     operate_in_org_root : BOOLEAN,
     include_regions : { SupportedRegions, {"us-east-1"}, {"us-east-1", "us-west-1"},
                         {"us-west-1", "eu-west-1", "ap-south-1"}, {"ap-south-1"} },
     exclude_regions : { {}, {"us-west-1"}, {"us-east-1", "eu-west-1"} }]

Scopes == { {}, {"us-east-1"}, {"us-west-1", "eu-west-1", "mars-1"} }

RegionsInit ==
    /\ pc = "loaded"
    /\ snapshot \in AscSnapshots(MaxAccounts)
    /\ IndexLoaded(snapshot)
    /\ lookup = <<>>
    /\ loaded_template \in RegionTemplates
    /\ org_root_check \in BOOLEAN
    /\ ScopeToRegions \in Scopes
    /\ resolved_accounts = {}
    /\ account_region_map = EmptyDict
    /\ FanIdle

ResolveAccountRegions ==
    /\ pc = "loaded"
    /\ account_region_map' =
          resolve_worker_template_account_regions(loaded_template, org_root_check, ScopeToRegions)
    /\ pc' = "regions_resolved"
    /\ UNCHANGED <<processVars, snapshot, indexVars, lookup, loaded_template, org_root_check,
                   ScopeToRegions, resolved_accounts, fanVars, timedVars, deliveryVars,
                   sendVars>>

RegionsNext == ResolveAccountRegions

SpecRegions == RegionsInit /\ [][RegionsNext]_vars

\* The regions the snapshot records as enabled for an account.
EnabledRegions(account_dict, a) ==
    UNION { account_dict[i].Regions : i \in { j \in DOMAIN account_dict : account_dict[j].Id = a } }

\* C7: every account's region set in the result lies within the account's
\* enabled regions, within IncludeRegions minus ExcludeRegions and, when
\* ScopeToRegions is non-empty, within ScopeToRegions.
C7_RegionsBounded ==
    pc = "regions_resolved" =>
        \A a \in DOMAIN account_region_map :
            /\ account_region_map[a] \subseteq EnabledRegions(snapshot, a)
            /\ account_region_map[a] \subseteq
                  loaded_template.include_regions \ loaded_template.exclude_regions
            /\ ScopeToRegions # {} => account_region_map[a] \subseteq ScopeToRegions

\* Under a scope, an account kept some region and lost an enabled, requested
\* region that lies outside the scope.
C7_Witness ==
    /\ pc = "regions_resolved"
    /\ ScopeToRegions # {}
    /\ \E a \in DOMAIN account_region_map :
          /\ account_region_map[a] # {}
          /\ \E r \in EnabledRegions(snapshot, a) \ ScopeToRegions :
                r \in loaded_template.include_regions \ loaded_template.exclude_regions

(***************************************************************************)
(* base_payload_schemas.py: loading a template                             *)
(***************************************************************************)
\* A template is a dictionary with UpperCamelCase keys; lists are kept as the
\* sets of their elements.  Loading answers [errors, data].
LengthBetween(values, min, max) == \A v \in values : Len(v) >= min /\ Len(v) <= max

validate_org_units(data) ==
    \A org_unit \in data :
        /\ Len(org_unit) # 0
        /\ IF startswith(org_unit, "ou-") THEN Len(org_unit) <= 68 ELSE Len(org_unit) <= 128

AccountTagNameValueSchema(raw_tags) ==
    [errors |-> \E t \in raw_tags :
                    \/ DOMAIN t # {"Name", "Value"}
                    \/ Len(t.Name) < 1 \/ Len(t.Name) > 128 \/ Len(t.Value) > 256,
     data |-> { [name |-> t.Name, value |-> t.Value] : t \in raw_tags }]

AccountsSpecificationSchema(raw) ==
    LET tags == AccountTagNameValueSchema(get(raw, "ByTags", {}))
        data == [by_names |-> get(raw, "ByNames", {}),
                 by_ids |-> get(raw, "ByIds", {}),
                 by_org_units |-> get(raw, "ByOrgUnits", {}),
                 by_tags |-> IF tags.errors THEN {} ELSE tags.data]
    IN [errors |-> \/ ~(DOMAIN raw \subseteq {"ByNames", "ByIds", "ByOrgUnits", "ByTags"})
                   \/ ~LengthBetween(data.by_names, 1, 128)
                   \/ ~LengthBetween(data.by_ids, 1, 12)
                   \/ ~validate_org_units(data.by_org_units)
                   \/ tags.errors,
        data |-> data]

\* IncludeAccountsSpecificationSchema.verify_schema: TRUE when it raises.
verify_schema(data, original_data) ==
    IF get(data, "all_accounts", FALSE)
    THEN \E field \in DOMAIN original_data :
            field # "AllAccounts" /\ original_data[field] # {}
    ELSE ~\E field \in {"by_names", "ByIds", "ByOrgUnits", "ByTags"} :
            get(data, field, {}) # {}

IncludeAccountsSpecificationSchema(raw) ==
    LET base == AccountsSpecificationSchema([k \in DOMAIN raw \ {"AllAccounts"} |-> raw[k]])
        data == [all_accounts |-> get(raw, "AllAccounts", FALSE)] @@ base.data
    IN [errors |-> base.errors \/ verify_schema(data, raw), data |-> data]

WorkerShipPayloadBaseTemplate(raw) ==
    [errors |-> ~({"TemplateName", "TemplateDescription"} \subseteq DOMAIN raw),
     data |-> [template_name |-> get(raw, "TemplateName", ""),
               template_description |-> get(raw, "TemplateDescription", "")]]

BaseAccountPayloadTemplate(raw) ==
    LET base == WorkerShipPayloadBaseTemplate(raw)
        include == IF "IncludeAccounts" \in DOMAIN raw
                   THEN IncludeAccountsSpecificationSchema(raw.IncludeAccounts)
                   ELSE [errors |-> TRUE, data |-> EmptyDict]
        exclude == IF "ExcludeAccounts" \in DOMAIN raw
                   THEN AccountsSpecificationSchema(raw.ExcludeAccounts)
                   ELSE [errors |-> FALSE, data |-> EmptyDict]
    IN [errors |-> base.errors \/ include.errors \/ exclude.errors,
        data |-> base.data @@
                 [include_accounts |-> include.data,
                  exclude_accounts |-> exclude.data,
                  operate_in_org_root |-> get(raw, "OperateInOrgRoot", FALSE),
                  starbase_assigned_account |-> get(raw, "StarbaseAssignedAccount", "None")]]

\* BaseAccountRegionPayloadTemplate.validate_regions: [errors, include, exclude]
validate_regions(include_regions, exclude_regions) ==
    LET all == "ALL" \in include_regions
        include_error == IF all THEN Cardinality(include_regions) > 1
                         ELSE include_regions \ SupportedRegions # {}
        exclude_error == exclude_regions # {} /\ exclude_regions \ SupportedRegions # {}
    IN [errors |-> include_error \/ exclude_error,
        include_regions |-> IF all THEN SupportedRegions ELSE include_regions,
        exclude_regions |-> exclude_regions]

BaseAccountRegionPayloadTemplate(raw) ==
    LET base == BaseAccountPayloadTemplate(raw)
        include_regions == get(raw, "IncludeRegions", {})
        exclude_regions == get(raw, "ExcludeRegions", {})
        field_errors == "IncludeRegions" \notin DOMAIN raw \/ Cardinality(include_regions) < 1
        regions == validate_regions(include_regions, exclude_regions)
    IN [errors |-> base.errors \/ field_errors \/ regions.errors,
        data |-> base.data @@
                 [include_regions |-> regions.include_regions,
                  exclude_regions |-> regions.exclude_regions,
                  starbase_assigned_region |-> get(raw, "StarbaseAssignedRegion", "None")]]

\* schema = ship.payload_template_class(); schema.load(template)
load(payload_template_class, raw) ==
    CASE payload_template_class = "WorkerShipPayloadBaseTemplate" -> WorkerShipPayloadBaseTemplate(raw)
      [] payload_template_class = "BaseAccountPayloadTemplate" -> BaseAccountPayloadTemplate(raw)
      [] payload_template_class = "BaseAccountRegionPayloadTemplate" -> BaseAccountRegionPayloadTemplate(raw)

(***************************************************************************)
(* starbase/utils.py and starbase/main.py: stage 2, the fan-out            *)
(***************************************************************************)
\* SQS takes at most 10 entries in one send_message_batch call.
BatchSize == 10

\* json.dumps(d): the text of d as it is at the time of the call.
json_dumps(d) == [json |-> d]

json_loads(text) == text.json

\* The order a loop visits a set in is not fixed by the language.
AccountNumber(a) == CHOOSE i \in 0..99 : AccountId(i) = a

RegionOrder == <<"ap-south-1", "eu-west-1", "us-east-1", "us-west-1">>

RegionNumber(r) == CHOOSE i \in DOMAIN RegionOrder : RegionOrder[i] = r

RECURSIVE OrderedNumbers(_, _)
OrderedNumbers(S, direction) ==
    IF S = {} THEN <<>>
    ELSE LET x == CHOOSE x \in S : \A y \in S :
                    IF direction = "ascending" THEN x <= y ELSE x >= y
         IN <<x>> \o OrderedNumbers(S \ {x}, direction)

OrderedAccounts(S, direction) ==
    LET numbers == OrderedNumbers({ AccountNumber(a) : a \in S }, direction)
    IN [i \in DOMAIN numbers |-> AccountId(numbers[i])]

OrderedRegions(S, direction) ==
    LET numbers == OrderedNumbers({ RegionNumber(r) : r \in S }, direction)
    IN [i \in DOMAIN numbers |-> RegionOrder[numbers[i]]]

\* total += len(regions), over the accounts of the map
RECURSIVE Total(_, _)
Total(accounts_regions_map, accounts) ==
    IF accounts = {} THEN 0
    ELSE LET account == CHOOSE a \in accounts : TRUE
         IN Cardinality(accounts_regions_map[account])
            + Total(accounts_regions_map, accounts \ {account})

Directions == {"ascending", "descending"}

SendMessageBatch(queue, entries) ==
    Append(queue, [call |-> "send_message_batch", Entries |-> entries])

\* The send_message_batch call about to be made is the one SQS fails.
SendFails == fail_at = send_attempts + 1

Raise(exception) ==
    /\ raised' = exception
    /\ pc' = "raised"

\* The loop body shared by both fan-outs: append the entry, send a full batch.
AppendEntryNoSend(id, template) ==
    /\ batch' = Append(batch, [Id |-> id, MessageBody |-> json_dumps(template)])
    /\ UNCHANGED <<invocation_queue, send_attempts, pc, raised>>

AppendEntry(id, template) ==
    LET entries == Append(batch, [Id |-> id, MessageBody |-> json_dumps(template)])
    IN IF Len(entries) = BatchSize
       THEN /\ send_attempts' = send_attempts + 1
            /\ IF SendFails
               THEN /\ Raise("ClientError")
                    /\ batch' = entries
                    /\ UNCHANGED invocation_queue
               ELSE /\ invocation_queue' = SendMessageBatch(invocation_queue, entries)
                    /\ batch' = <<>>
                    /\ UNCHANGED <<pc, raised>>
       ELSE /\ batch' = entries
            /\ UNCHANGED <<invocation_queue, send_attempts, pc, raised>>

\* "Send over any stragglers"
Stragglers ==
    IF batch # <<>>
    THEN /\ send_attempts' = send_attempts + 1
         /\ IF SendFails
            THEN /\ Raise("ClientError")
                 /\ UNCHANGED invocation_queue
            ELSE /\ invocation_queue' = SendMessageBatch(invocation_queue, batch)
                 /\ pc' = "done"
                 /\ UNCHANGED raised
    ELSE /\ pc' = "done"
         /\ UNCHANGED <<invocation_queue, send_attempts, raised>>

\* account_fanout up to its loop
AccountFanoutBeginEmptyMeansAll(verified) ==
    LET resolved == resolve_worker_template_accounts(verified)
        accounts_to_operate_on == IF resolved = {} THEN get_all_accounts ELSE resolved
    IN IF accounts_to_operate_on = {}
       THEN /\ pc' = "done"
            /\ UNCHANGED <<todo, region_order, account_region_map>>
       ELSE /\ \E direction \in Directions :
                  todo' = OrderedAccounts(accounts_to_operate_on, direction)
            /\ pc' = "account_fanout"
            /\ UNCHANGED <<region_order, account_region_map>>

AccountFanoutBegin(verified) ==
    LET accounts_to_operate_on == resolve_worker_template_accounts(verified)
    IN IF accounts_to_operate_on = {}
       THEN /\ pc' = "done"
            /\ UNCHANGED <<todo, region_order, account_region_map>>
       ELSE /\ \E direction \in Directions :
                  todo' = OrderedAccounts(accounts_to_operate_on, direction)
            /\ pc' = "account_fanout"
            /\ UNCHANGED <<region_order, account_region_map>>

\* account_region_fanout up to its loop
AccountRegionFanoutBegin(verified) ==
    LET accounts_regions_map ==
            resolve_worker_template_account_regions(verified, TRUE, ScopeToRegions)
        total == Total(accounts_regions_map, DOMAIN accounts_regions_map)
    IN /\ account_region_map' = accounts_regions_map
       /\ IF total = 0
          THEN /\ pc' = "done"
               /\ UNCHANGED <<todo, region_order>>
          ELSE /\ \E direction \in Directions :
                     todo' = OrderedAccounts(DOMAIN accounts_regions_map, direction)
               /\ region_order' \in Directions
               /\ pc' = "account_region_fanout"

IsAccountSchema(class) ==
    class \in {"BaseAccountPayloadTemplate", "BaseAccountRegionPayloadTemplate"}

IsAccountRegionSchema(class) == class = "BaseAccountRegionPayloadTemplate"

\* _fan_out_payload_logic: fetch the template, validate it, branch on the strategy.
FanOutPayloadLogicLateCheck ==
    /\ pc = "fan_out"
    /\ LET template == template_object
           loaded == load(ship.payload_template_class, template)
       IN /\ original_template' = template
          /\ IF loaded.errors
             THEN /\ Raise("ValidationError")
                  /\ UNCHANGED <<verified_template, todo, region_order, account_region_map,
                                 invocation_queue>>
             ELSE /\ verified_template' = loaded.data
                  /\ CASE ship.fan_out_strategy = "SINGLE_INVOCATION" ->
                            /\ invocation_queue' = Append(invocation_queue,
                                  [call |-> "send_message", MessageBody |-> json_dumps(template)])
                            /\ pc' = "done"
                            /\ UNCHANGED <<todo, region_order, account_region_map, raised>>
                       [] ship.fan_out_strategy = "ACCOUNT" ->
                            IF ~IsAccountSchema(ship.payload_template_class)
                            THEN /\ Raise("InvalidTemplateForFanoutError")
                                 /\ invocation_queue' = Append(invocation_queue,
                                       [call |-> "send_message",
                                        MessageBody |-> json_dumps(template)])
                                 /\ UNCHANGED <<todo, region_order, account_region_map>>
                            ELSE /\ AccountFanoutBegin(loaded.data)
                                 /\ UNCHANGED <<invocation_queue, raised>>
                       [] ship.fan_out_strategy = "ACCOUNT_REGION" ->
                            IF ~IsAccountRegionSchema(ship.payload_template_class)
                            THEN /\ Raise("InvalidTemplateForFanoutError")
                                 /\ invocation_queue' = Append(invocation_queue,
                                       [call |-> "send_message",
                                        MessageBody |-> json_dumps(template)])
                                 /\ UNCHANGED <<todo, region_order, account_region_map>>
                            ELSE /\ AccountRegionFanoutBegin(loaded.data)
                                 /\ UNCHANGED <<invocation_queue, raised>>
    /\ UNCHANGED <<processVars, snapshot, indexVars, lookup, loaded_template, org_root_check, ScopeToRegions,
                   resolved_accounts, ship, template_object, inner, current_account, batch,
                   timedVars, deliveryVars, sendVars>>

FanOutPayloadLogic ==
    /\ pc = "fan_out"
    /\ LET template == template_object
           loaded == load(ship.payload_template_class, template)
       IN /\ original_template' = template
          /\ IF loaded.errors
             THEN /\ Raise("ValidationError")
                  /\ UNCHANGED <<verified_template, todo, region_order, account_region_map,
                                 invocation_queue>>
             ELSE /\ verified_template' = loaded.data
                  /\ CASE ship.fan_out_strategy = "SINGLE_INVOCATION" ->
                            /\ invocation_queue' = Append(invocation_queue,
                                  [call |-> "send_message", MessageBody |-> json_dumps(template)])
                            /\ pc' = "done"
                            /\ UNCHANGED <<todo, region_order, account_region_map, raised>>
                       [] ship.fan_out_strategy = "ACCOUNT" ->
                            IF ~IsAccountSchema(ship.payload_template_class)
                            THEN /\ Raise("InvalidTemplateForFanoutError")
                                 /\ UNCHANGED <<todo, region_order, account_region_map,
                                                invocation_queue>>
                            ELSE /\ AccountFanoutBegin(loaded.data)
                                 /\ UNCHANGED <<invocation_queue, raised>>
                       [] ship.fan_out_strategy = "ACCOUNT_REGION" ->
                            IF ~IsAccountRegionSchema(ship.payload_template_class)
                            THEN /\ Raise("InvalidTemplateForFanoutError")
                                 /\ UNCHANGED <<todo, region_order, account_region_map,
                                                invocation_queue>>
                            ELSE /\ AccountRegionFanoutBegin(loaded.data)
                                 /\ UNCHANGED <<invocation_queue, raised>>
    /\ UNCHANGED <<processVars, snapshot, indexVars, lookup, loaded_template, org_root_check, ScopeToRegions,
                   resolved_accounts, ship, template_object, inner, current_account, batch,
                   timedVars, deliveryVars, sendVars>>

\* account_fanout: one turn of `for account in accounts_to_operate_on`
AccountFanoutLoopAliased ==
    /\ pc = "account_fanout"
    /\ todo # <<>>
    /\ LET account == Head(todo)
           assigned == setitem(original_template, "StarbaseAssignedAccount", account)
           entries == [i \in DOMAIN batch |-> [batch[i] EXCEPT !.MessageBody = json_dumps(assigned)]]
                      \o <<[Id |-> account, MessageBody |-> json_dumps(assigned)]>>
       IN /\ original_template' = assigned
          /\ IF Len(entries) = BatchSize
             THEN /\ send_attempts' = send_attempts + 1
                  /\ IF SendFails
                     THEN /\ Raise("ClientError")
                          /\ batch' = entries
                          /\ UNCHANGED invocation_queue
                     ELSE /\ invocation_queue' = SendMessageBatch(invocation_queue, entries)
                          /\ batch' = <<>>
                          /\ UNCHANGED <<pc, raised>>
             ELSE /\ batch' = entries
                  /\ UNCHANGED <<invocation_queue, send_attempts, pc, raised>>
    /\ todo' = Tail(todo)
    /\ UNCHANGED <<processVars, snapshot, indexVars, lookup, resolveVars, ship, template_object,
                   verified_template, inner, current_account, region_order, timedVars,
                   deliveryVars, fail_at>>

AccountFanoutLoop ==
    /\ pc = "account_fanout"
    /\ todo # <<>>
    /\ LET account == Head(todo)
           assigned == setitem(original_template, "StarbaseAssignedAccount", account)
       IN /\ original_template' = assigned
          /\ AppendEntry(account, assigned)
    /\ todo' = Tail(todo)
    /\ UNCHANGED <<processVars, snapshot, indexVars, lookup, resolveVars, ship, template_object,
                   verified_template, inner, current_account, region_order, timedVars,
                   deliveryVars, fail_at>>

\* account_fanout: after the loop
AccountFanoutStragglers ==
    /\ pc = "account_fanout"
    /\ todo = <<>>
    /\ Stragglers
    /\ UNCHANGED <<processVars, snapshot, indexVars, lookup, resolveVars, ship, template_object,
                   original_template, verified_template, todo, inner, current_account,
                   region_order, batch, timedVars, deliveryVars, fail_at>>

\* account_region_fanout: `for account, regions in accounts_regions_map.items()`
AccountRegionFanoutOuterNewBatch ==
    /\ pc = "account_region_fanout"
    /\ inner = <<>>
    /\ todo # <<>>
    /\ LET account == Head(todo)
       IN /\ original_template' = setitem(original_template, "StarbaseAssignedAccount", account)
          /\ current_account' = account
          /\ inner' = OrderedRegions(account_region_map[account], region_order)
    /\ todo' = Tail(todo)
    /\ batch' = <<>>
    /\ UNCHANGED <<processVars, pc, snapshot, indexVars, lookup, resolveVars, ship, template_object,
                   verified_template, region_order, invocation_queue, raised, timedVars,
                   deliveryVars, sendVars>>

AccountRegionFanoutOuter ==
    /\ pc = "account_region_fanout"
    /\ inner = <<>>
    /\ todo # <<>>
    /\ LET account == Head(todo)
       IN /\ original_template' = setitem(original_template, "StarbaseAssignedAccount", account)
          /\ current_account' = account
          /\ inner' = OrderedRegions(account_region_map[account], region_order)
    /\ todo' = Tail(todo)
    /\ UNCHANGED <<processVars, pc, snapshot, indexVars, lookup, resolveVars, ship, template_object,
                   verified_template, region_order, batch, invocation_queue, raised, timedVars,
                   deliveryVars, sendVars>>

\* account_region_fanout: one turn of `for region in regions`
AccountRegionFanoutInnerRegionId ==
    /\ pc = "account_region_fanout"
    /\ inner # <<>>
    /\ LET region == Head(inner)
           assigned == setitem(original_template, "StarbaseAssignedRegion", region)
       IN /\ original_template' = assigned
          /\ AppendEntry(region, assigned)
    /\ inner' = Tail(inner)
    /\ UNCHANGED <<processVars, snapshot, indexVars, lookup, resolveVars, ship, template_object,
                   verified_template, todo, current_account, region_order, timedVars,
                   deliveryVars, fail_at>>

AccountRegionFanoutInner ==
    /\ pc = "account_region_fanout"
    /\ inner # <<>>
    /\ LET region == Head(inner)
           assigned == setitem(original_template, "StarbaseAssignedRegion", region)
       IN /\ original_template' = assigned
          /\ AppendEntry(current_account \o region, assigned)
    /\ inner' = Tail(inner)
    /\ UNCHANGED <<processVars, snapshot, indexVars, lookup, resolveVars, ship, template_object,
                   verified_template, todo, current_account, region_order, timedVars,
                   deliveryVars, fail_at>>

\* account_region_fanout: after the loops
AccountRegionFanoutStragglers ==
    /\ pc = "account_region_fanout"
    /\ inner = <<>>
    /\ todo = <<>>
    /\ Stragglers
    /\ UNCHANGED <<processVars, snapshot, indexVars, lookup, resolveVars, ship, template_object,
                   original_template, verified_template, todo, inner, current_account,
                   region_order, batch, timedVars, deliveryVars, fail_at>>

(***************************************************************************)
(* The fleets, worker ships and templates a fan-out is run on              *)
(***************************************************************************)
\* A fleet of n accounts: the last one is the organization root, the others
\* alternate between two organizational units with different regions.
FanSnapshot(n) ==
    [i \in 1..n |-> Account(i, IF i = n THEN ProfileRoot
                               ELSE IF i % 2 = 1 THEN ProfileDev ELSE ProfileProd)]

FanSnapshots == { FanSnapshot(n) : n \in 1..MaxFanAccounts }

Ships == {
    [fan_out_strategy |-> "SINGLE_INVOCATION", payload_template_class |-> "WorkerShipPayloadBaseTemplate"],
    [fan_out_strategy |-> "ACCOUNT", payload_template_class |-> "BaseAccountPayloadTemplate"],
    [fan_out_strategy |-> "ACCOUNT", payload_template_class |-> "WorkerShipPayloadBaseTemplate"],
    [fan_out_strategy |-> "ACCOUNT_REGION", payload_template_class |-> "BaseAccountRegionPayloadTemplate"],
    [fan_out_strategy |-> "ACCOUNT_REGION", payload_template_class |-> "BaseAccountPayloadTemplate"] }

\* An optional key of a template.
Optional(key, values) == { [k \in {key} |-> v] : v \in values } \cup {EmptyDict}

BaseParts ==
    { [TemplateName |-> "TestWorkerTemplate", TemplateDescription |-> "A template"],
      [TemplateDescription |-> "A template without a name"] }

RawIncludes == {
    [AllAccounts |-> TRUE],
    [ByNames |-> {"Account 1", "account 2", "ACCOUNT 3"}],
    [ByNames |-> {"Account 1"}, ByOrgUnits |-> {"root"}],
    [ByIds |-> {"01"}],
    [AllAccounts |-> TRUE, ByIds |-> {"01"}],
    [ByNames |-> {"nonexistent"}],
    EmptyDict }

RawExcludes == {
    [ByNames |-> {"Account 1"}],
    [ByTags |-> {[Name |-> "Env", Value |-> "Prod"]}] }

AccountParts ==
    { i @@ e @@ o @@ a :
        i \in Optional("IncludeAccounts", RawIncludes),
        e \in Optional("ExcludeAccounts", RawExcludes),
        o \in Optional("OperateInOrgRoot", {TRUE}),
        a \in Optional("StarbaseAssignedAccount", {"77"}) }

RegionAccountParts ==
    { i @@ e @@ o :
        i \in Optional("IncludeAccounts",
                       { [AllAccounts |-> TRUE], [ByNames |-> {"Account 1", "account 2", "ACCOUNT 3"}] }),
        e \in Optional("ExcludeAccounts", { [ByNames |-> {"Account 1"}] }),
        o \in Optional("OperateInOrgRoot", {TRUE}) }

RegionParts ==
    { i @@ e :
        i \in Optional("IncludeRegions",
                       { {"ALL"}, {"us-east-1", "us-west-1"}, {"eu-west-1"}, {"mars-1"},
                         {"ALL", "us-east-1"} }),
        e \in Optional("ExcludeRegions", { {"us-west-1"} }) }

AccountTemplateObjects == { b @@ a : b \in BaseParts, a \in AccountParts }

RegionTemplateObjects ==
    { b @@ a @@ r : b \in { x \in BaseParts : "TemplateName" \in DOMAIN x },
                    a \in RegionAccountParts, r \in RegionParts }

TemplateObjectsFor(s) ==
    IF s.payload_template_class = "BaseAccountRegionPayloadTemplate"
    THEN RegionTemplateObjects
    ELSE AccountTemplateObjects

FanScopes == { {}, {"us-west-1", "eu-west-1", "mars-1"} }

FanOutInputs ==
    /\ pc = "fan_out"
    /\ TimedIdle
    /\ snapshot \in FanSnapshots
    /\ IndexLoaded(snapshot)
    /\ lookup = <<>>
    /\ ResolveIdle
    /\ ship \in Ships
    /\ template_object \in TemplateObjectsFor(ship)
    /\ original_template = EmptyDict
    /\ verified_template = EmptyDict
    /\ todo = <<>>
    /\ inner = <<>>
    /\ current_account = "None"
    /\ region_order = "ascending"
    /\ batch = <<>>
    /\ invocation_queue = <<>>
    /\ raised = "None"

FanOutInit == FanOutInputs /\ NoSendFails

(***************************************************************************)
(* Stage 1: a timed event tasks the fan-out queue                          *)
(* starbase/main.py process_eventbridge_timed_event, starbase/utils.py     *)
(***************************************************************************)
EventBridgeFrequency ==
    {"FIVE_MIN", "FIFTEEN_MIN", "THIRTY_MIN", "HOURLY", "SIX_HOURLY", "TWELVE_HOURLY", "DAILY"}

\* The discovered worker ship plugins, in discovery order.
Plugins == <<"ShipA", "ShipB", "ShipC">>

\* get_worker_ships(): the plugins whose configuration has Enabled true, in order.
get_worker_ships(config) ==
    SelectSeq(Plugins, LAMBDA name : name \in DOMAIN config /\ config[name]["Enabled"])

\* The loop that builds need_to_task.
NeedToTaskAnyFrequency(ships, config, event_detail) ==
    SelectSeq(ships, LAMBDA ship_name :
        "EVENTBRIDGE_TIMED_EVENT" \in config[ship_name]["InvocationSources"])

NeedToTask(ships, config, event_detail) ==
    SelectSeq(ships, LAMBDA ship_name :
        /\ "EVENTBRIDGE_TIMED_EVENT" \in config[ship_name]["InvocationSources"]
        /\ event_detail = config[ship_name]["EventBridgeTimedFrequency"])

\* list_objects: the keys of the bucket that start with the prefix.
list_objects(keys, prefix) == SelectSeq(keys, LAMBDA key : startswith(key, prefix))

list_worker_ship_templates(keys, prefix) ==
    IF endswith(prefix, ".yaml")
    THEN <<prefix>>
    ELSE SelectSeq(list_objects(keys, prefix), LAMBDA key : endswith(key, ".yaml"))

Min(a, b) == IF a <= b THEN a ELSE b

\* One turn of get_template_batch's while loop: the batch it yields at `start`.
get_template_batch(templates, worker_ship_name, from) ==
    [offset \in 1..Min(BatchSize, Len(templates) - from) |->
        [Id |-> str(from + offset),
         MessageBody |-> json_dumps([worker_ship |-> worker_ship_name,
                                     template_prefix |-> templates[from + offset]])]]

process_eventbridge_timed_event ==
    /\ pc = "timed_event"
    /\ IF event.name \notin EventBridgeFrequency
       THEN /\ Raise("ValueError")
            /\ UNCHANGED need_to_task
       ELSE /\ need_to_task' = NeedToTask(get_worker_ships(configuration), configuration, event.name)
            /\ pc' = IF need_to_task' = <<>> THEN "done" ELSE "tasking"
            /\ UNCHANGED raised
    /\ UNCHANGED <<processVars, snapshot, indexVars, lookup, resolveVars, ship, template_object,
                   original_template, verified_template, todo, inner, current_account,
                   region_order, batch, invocation_queue, event, configuration, bucket,
                   worker_template_list, start, fanout_queue, deliveryVars, sendVars>>

\* `for worker, config in need_to_task`: list the worker's templates
TaskWorkerStopsOnEmpty ==
    /\ pc = "tasking"
    /\ need_to_task # <<>>
    /\ LET worker == Head(need_to_task)
           listed == list_worker_ship_templates(bucket, configuration[worker]["TemplatePrefix"])
       IN IF listed = <<>>
          THEN /\ need_to_task' = <<>>
               /\ UNCHANGED <<pc, worker_template_list, start>>
          ELSE /\ worker_template_list' = listed
               /\ start' = 0
               /\ pc' = "task_starbase_fanout"
               /\ UNCHANGED need_to_task
    /\ UNCHANGED <<processVars, snapshot, indexVars, lookup, resolveVars, fanVars, event, configuration,
                   bucket, fanout_queue, deliveryVars, sendVars>>

TaskWorker ==
    /\ pc = "tasking"
    /\ need_to_task # <<>>
    /\ LET worker == Head(need_to_task)
           listed == list_worker_ship_templates(bucket, configuration[worker]["TemplatePrefix"])
       IN IF listed = <<>>
          THEN /\ need_to_task' = Tail(need_to_task)
               /\ UNCHANGED <<pc, worker_template_list, start>>
          ELSE /\ worker_template_list' = listed
               /\ start' = 0
               /\ pc' = "task_starbase_fanout"
               /\ UNCHANGED need_to_task
    /\ UNCHANGED <<processVars, snapshot, indexVars, lookup, resolveVars, fanVars, event, configuration,
                   bucket, fanout_queue, deliveryVars, sendVars>>

\* task_starbase_fanout: send the next batch of get_template_batch
TaskStarbaseFanoutSendSkipsFailed ==
    /\ pc = "task_starbase_fanout"
    /\ start < Len(worker_template_list)
    /\ send_attempts' = send_attempts + 1
    /\ IF SendFails
       THEN /\ start' = start + BatchSize
            /\ UNCHANGED <<fanout_queue, pc, raised>>
       ELSE /\ fanout_queue' = SendMessageBatch(fanout_queue,
                    get_template_batch(worker_template_list, Head(need_to_task), start))
            /\ start' = start + BatchSize
            /\ UNCHANGED <<pc, raised>>
    /\ UNCHANGED <<processVars, snapshot, indexVars, lookup, resolveVars, ship, template_object,
                   original_template, verified_template, todo, inner, current_account,
                   region_order, batch, invocation_queue, event, configuration, bucket,
                   need_to_task, worker_template_list, deliveryVars, fail_at>>

TaskStarbaseFanoutSend ==
    /\ pc = "task_starbase_fanout"
    /\ start < Len(worker_template_list)
    /\ send_attempts' = send_attempts + 1
    /\ IF SendFails
       THEN /\ Raise("ClientError")
            /\ UNCHANGED <<fanout_queue, start>>
       ELSE /\ fanout_queue' = SendMessageBatch(fanout_queue,
                    get_template_batch(worker_template_list, Head(need_to_task), start))
            /\ start' = start + BatchSize
            /\ UNCHANGED <<pc, raised>>
    /\ UNCHANGED <<processVars, snapshot, indexVars, lookup, resolveVars, ship, template_object,
                   original_template, verified_template, todo, inner, current_account,
                   region_order, batch, invocation_queue, event, configuration, bucket,
                   need_to_task, worker_template_list, deliveryVars, fail_at>>

\* task_starbase_fanout: the generator is exhausted, on to the next worker
TaskStarbaseFanoutReturn ==
    /\ pc = "task_starbase_fanout"
    /\ start >= Len(worker_template_list)
    /\ need_to_task' = Tail(need_to_task)
    /\ pc' = "tasking"
    /\ UNCHANGED <<processVars, snapshot, indexVars, lookup, resolveVars, fanVars, event, configuration,
                   bucket, worker_template_list, start, fanout_queue, deliveryVars, sendVars>>

\* "All ships have been tasked for fan-out for this timed event"
TimedEventReturn ==
    /\ pc = "tasking"
    /\ need_to_task = <<>>
    /\ pc' = "done"
    /\ UNCHANGED <<processVars, snapshot, indexVars, lookup, resolveVars, fanVars, timedVars, deliveryVars,
                   sendVars>>

(***************************************************************************)
(* The configurations, buckets and events a timed invocation is run on     *)
(***************************************************************************)
\* Worker configurations as the configuration schema accepts them: a worker
\* invoked by EVENTBRIDGE_TIMED_EVENT carries an EventBridgeTimedFrequency.
TimedSources ==
    { [InvocationSources |-> {"S3"}],
      [InvocationSources |-> {"S3"}, EventBridgeTimedFrequency |-> "HOURLY"],
      [InvocationSources |-> {"EVENTBRIDGE_TIMED_EVENT"}, EventBridgeTimedFrequency |-> "HOURLY"],
      [InvocationSources |-> {"EVENTBRIDGE_TIMED_EVENT"}, EventBridgeTimedFrequency |-> "DAILY"],
      [InvocationSources |-> {"S3", "EVENTBRIDGE_TIMED_EVENT"},
       EventBridgeTimedFrequency |-> "HOURLY"] }

FewSources ==
    { [InvocationSources |-> {"S3"}],
      [InvocationSources |-> {"EVENTBRIDGE_TIMED_EVENT"}, EventBridgeTimedFrequency |-> "HOURLY"],
      [InvocationSources |-> {"S3", "EVENTBRIDGE_TIMED_EVENT"},
       EventBridgeTimedFrequency |-> "DAILY"] }

ShipConfigs(prefix, sources) ==
    { [Enabled |-> enabled, TemplatePrefix |-> prefix] @@ source :
        enabled \in BOOLEAN, source \in sources }

Configurations ==
    { [ShipA |-> a, ShipB |-> b, ShipC |-> c] :
        a \in ShipConfigs("ShipA/", TimedSources),
        b \in ShipConfigs("ShipB/template.yaml", FewSources),
        c \in ShipConfigs("Ship", FewSources) }

TemplateKey(i) == "ShipA/template" \o (IF i < 10 THEN "0" ELSE "") \o str(i) \o ".yaml"

\* A bucket with n templates under ShipA/, listed in key order.
Bucket(n, others) ==
    (IF others THEN <<"ShipA/notes.txt">> ELSE <<>>)
    \o [i \in 1..n |-> TemplateKey(i)]
    \o (IF others THEN <<"ShipC/only.yaml", "ShipC/only.yaml.bak">> ELSE <<>>)

Buckets == { Bucket(n, others) : n \in 0..MaxTemplates, others \in BOOLEAN }

Events == { [name |-> "HOURLY"], [name |-> "DAILY"], [name |-> "FIVE_MIN"], [name |-> "WEEKLY"] }

TimedInputs ==
    /\ pc = "timed_event"
    /\ DeliveryIdle
    /\ snapshot = <<>>
    /\ IndexLoaded(snapshot)
    /\ lookup = <<>>
    /\ ResolveIdle
    /\ ship = NoShip
    /\ template_object = EmptyDict
    /\ original_template = EmptyDict
    /\ verified_template = EmptyDict
    /\ todo = <<>>
    /\ inner = <<>>
    /\ current_account = "None"
    /\ region_order = "ascending"
    /\ batch = <<>>
    /\ invocation_queue = <<>>
    /\ raised = "None"
    /\ event \in Events
    /\ configuration \in Configurations
    /\ bucket \in Buckets
    /\ need_to_task = <<>>
    /\ worker_template_list = <<>>
    /\ start = 0
    /\ fanout_queue = <<>>

TimedInit == TimedInputs /\ NoSendFails

(***************************************************************************)
(* The Starbase: an invocation is a timed event or a fan-out request       *)
(***************************************************************************)
Init == TimedInit \/ FanOutInit

Next ==
    \/ process_eventbridge_timed_event
    \/ TaskWorker
    \/ TaskStarbaseFanoutSend
    \/ TaskStarbaseFanoutReturn
    \/ TimedEventReturn
    \/ FanOutPayloadLogic
    \/ AccountFanoutLoop
    \/ AccountFanoutStragglers
    \/ AccountRegionFanoutOuter
    \/ AccountRegionFanoutInner
    \/ AccountRegionFanoutStragglers

Spec == Init /\ [][Next]_vars

(***************************************************************************)
(* Properties of the Starbase                                              *)
(***************************************************************************)
\* The entries of the send_message_batch calls made on a queue, in order.
RECURSIVE EntriesOf(_)
EntriesOf(queue) ==
    IF queue = <<>> THEN <<>>
    ELSE (IF Head(queue).call = "send_message_batch" THEN Head(queue).Entries ELSE <<>>)
         \o EntriesOf(Tail(queue))

\* The entries sent so far together with those of the batch under construction.
Placed == EntriesOf(invocation_queue) \o (IF pc = "done" THEN <<>> ELSE batch)

Distinct(f) == \A i, j \in DOMAIN f : i # j => f[i] # f[j]

Range(f) == { f[i] : i \in DOMAIN f }

AccountFanOut == ship.fan_out_strategy = "ACCOUNT" /\ pc \in {"account_fanout", "done"}

AccountRegionFanOut ==
    ship.fan_out_strategy = "ACCOUNT_REGION" /\ pc \in {"account_region_fanout", "done"}

\* C1: an ACCOUNT fan-out of a validated template whose selector resolves to
\* T places entries for accounts of T only, never two for the same account,
\* each body being the template as fetched with StarbaseAssignedAccount set
\* to the entry's account, whatever was built after it; once the fan-out
\* has returned, the accounts of the sent messages are exactly T.
C1_AccountFanOut ==
    AccountFanOut =>
        LET T == resolve_worker_template_accounts(verified_template)
            sent == EntriesOf(invocation_queue)
        IN /\ \A i \in DOMAIN Placed :
                /\ Placed[i].Id \in T
                /\ json_loads(Placed[i].MessageBody)
                     = setitem(template_object, "StarbaseAssignedAccount", Placed[i].Id)
           /\ Distinct([i \in DOMAIN Placed |-> Placed[i].Id])
           /\ pc = "done" => /\ { sent[i].Id : i \in DOMAIN sent } = T
                             /\ Len(sent) = Cardinality(T)
                             /\ \A i \in DOMAIN invocation_queue :
                                    invocation_queue[i].call = "send_message_batch"

\* More than one batch was sent, for a template that already carried a
\* StarbaseAssignedAccount of its own.
C1_Witness ==
    /\ AccountFanOut
    /\ pc = "done"
    /\ Len(invocation_queue) >= 2
    /\ "StarbaseAssignedAccount" \in DOMAIN template_object
    /\ "ExcludeAccounts" \in DOMAIN template_object

PairOf(entry) ==
    <<json_loads(entry.MessageBody)["StarbaseAssignedAccount"],
      json_loads(entry.MessageBody)["StarbaseAssignedRegion"]>>

PairsOf(M) == UNION { { <<a, r>> : r \in M[a] } : a \in DOMAIN M }

\* C2: an ACCOUNT_REGION fan-out of a validated template that resolves to
\* the map M places entries for pairs (a, r) with r in M[a] only, never two
\* for the same pair, each body being the template as fetched with both
\* assigned fields set to the pair; once the fan-out has returned, the pairs
\* of the sent messages are exactly those of M, as many as the sum of |M[a]|.
C2_AccountRegionFanOut ==
    AccountRegionFanOut =>
        LET M == resolve_worker_template_account_regions(verified_template, TRUE, ScopeToRegions)
            sent == EntriesOf(invocation_queue)
        IN /\ \A i \in DOMAIN Placed :
                /\ PairOf(Placed[i]) \in PairsOf(M)
                /\ json_loads(Placed[i].MessageBody)
                     = setitem(setitem(template_object,
                                       "StarbaseAssignedAccount", PairOf(Placed[i])[1]),
                               "StarbaseAssignedRegion", PairOf(Placed[i])[2])
           /\ Distinct([i \in DOMAIN Placed |-> PairOf(Placed[i])])
           /\ pc = "done" => /\ { PairOf(sent[i]) : i \in DOMAIN sent } = PairsOf(M)
                             /\ Len(sent) = Cardinality(PairsOf(M))
                             /\ \A i \in DOMAIN invocation_queue :
                                    invocation_queue[i].call = "send_message_batch"

\* Several batches were sent, for accounts that do not all have the same regions.
C2_Witness ==
    /\ AccountRegionFanOut
    /\ pc = "done"
    /\ Len(invocation_queue) >= 2
    /\ \E a, b \in DOMAIN account_region_map :
            /\ Cardinality(account_region_map[a]) >= 2
            /\ account_region_map[b] # {}
            /\ account_region_map[a] # account_region_map[b]

Batches(queue) ==
    { queue[i].Entries : i \in { j \in DOMAIN queue : queue[j].call = "send_message_batch" } }

\* C3: every batch sent to the fan-out queue or to a worker's invocation
\* queue has at least 1 and at most 10 entries.
C3_BatchSizes ==
    \A entries \in Batches(fanout_queue) \cup Batches(invocation_queue) :
        /\ Len(entries) >= 1
        /\ Len(entries) <= 10

\* A fan-out over more than 10 targets has returned: a full batch and a
\* batch of stragglers were sent.
C3_Witness ==
    /\ pc = "done"
    /\ \E full, rest \in Batches(invocation_queue) :
            /\ Len(full) = 10
            /\ Len(rest) < 10

\* C4: within every batch sent, no two entries have the same Id; a stage-1
\* entry is identified by the 1-based position of its template in the
\* worker's template list, an ACCOUNT entry by its account, an
\* ACCOUNT_REGION entry by its account followed by its region.
C4_BatchIds ==
    /\ \A entries \in Batches(fanout_queue) \cup Batches(invocation_queue) :
            Distinct([i \in DOMAIN entries |-> entries[i].Id])
    /\ \A entries \in Batches(fanout_queue) : \A i \in DOMAIN entries :
            LET message == json_loads(entries[i].MessageBody)
                listed == list_worker_ship_templates(
                              bucket, configuration[message.worker_ship]["TemplatePrefix"])
            IN \E position \in DOMAIN listed :
                    /\ entries[i].Id = str(position)
                    /\ listed[position] = message.template_prefix
    /\ AccountFanOut =>
            \A entries \in Batches(invocation_queue) : \A i \in DOMAIN entries :
                entries[i].Id = json_loads(entries[i].MessageBody)["StarbaseAssignedAccount"]
    /\ AccountRegionFanOut =>
            \A entries \in Batches(invocation_queue) : \A i \in DOMAIN entries :
                entries[i].Id = PairOf(entries[i])[1] \o PairOf(entries[i])[2]

\* A worker's template list went over one batch: the second batch counts on from 11.
C4_Witness ==
    /\ pc = "done"
    /\ \E entries \in Batches(fanout_queue) : entries[1].Id = "11"

\* The workers a timed event is for, and the templates listed for a worker.
Matches(W) ==
    /\ configuration[W]["Enabled"]
    /\ "EVENTBRIDGE_TIMED_EVENT" \in configuration[W]["InvocationSources"]
    /\ get(configuration[W], "EventBridgeTimedFrequency", "None") = event.name

ListedFor(W) ==
    LET prefix == configuration[W]["TemplatePrefix"]
    IN IF endswith(prefix, ".yaml") THEN {prefix}
       ELSE { key \in Range(bucket) : startswith(key, prefix) /\ endswith(key, ".yaml") }

Expected ==
    UNION { { [worker_ship |-> W, template_prefix |-> t] : t \in ListedFor(W) } :
            W \in { V \in DOMAIN configuration : Matches(V) } }

FanOutMessages ==
    LET sent == EntriesOf(fanout_queue)
    IN [i \in DOMAIN sent |-> json_loads(sent[i].MessageBody)]

ClauseNames == {"ByNames", "ByIds", "ByOrgUnits", "ByTags"}

\* Every IncludeAccounts with each key absent, empty or set.
RawIncludeAccounts ==
    { a @@ n @@ i @@ o @@ t :
        a \in Optional("AllAccounts", BOOLEAN),
        n \in Optional("ByNames", { {}, {"Account 1"} }),
        i \in Optional("ByIds", { {}, {"01"} }),
        o \in Optional("ByOrgUnits", { {}, {"ou-1"} }),
        t \in Optional("ByTags", { {}, {[Name |-> "Env", Value |-> "Prod"]} }) }

SchemaInit ==
    /\ pc = "schema"
    /\ snapshot = <<>>
    /\ IndexLoaded(snapshot)
    /\ lookup = <<>>
    /\ ResolveIdle
    /\ TimedIdle
    /\ NoSendFails
    /\ ship = NoShip
    /\ \E include \in RawIncludeAccounts :
            template_object = [TemplateName |-> "TestWorkerTemplate",
                               TemplateDescription |-> "A template",
                               IncludeAccounts |-> include]
    /\ original_template = EmptyDict
    /\ verified_template = EmptyDict
    /\ todo = <<>>
    /\ inner = <<>>
    /\ current_account = "None"
    /\ region_order = "ascending"
    /\ batch = <<>>
    /\ invocation_queue = <<>>
    /\ raised = "None"

\* BaseAccountPayloadTemplate().load(template)
LoadTemplate ==
    /\ pc = "schema"
    /\ LET loaded == load("BaseAccountPayloadTemplate", template_object)
       IN IF loaded.errors
          THEN /\ Raise("ValidationError")
               /\ UNCHANGED verified_template
          ELSE /\ verified_template' = loaded.data
               /\ pc' = "schema_loaded"
               /\ UNCHANGED raised
    /\ UNCHANGED <<processVars, snapshot, indexVars, lookup, resolveVars, ship, template_object,
                   original_template, todo, inner, current_account, region_order, batch,
                   invocation_queue, timedVars, deliveryVars, sendVars>>

SchemaNext == LoadTemplate

SpecSchema == SchemaInit /\ [][SchemaNext]_vars

\* What the template says: AllAccounts is true; a clause is given a value.
AllAccountsSet == get(template_object["IncludeAccounts"], "AllAccounts", FALSE)

ClauseGiven(clause) ==
    /\ clause \in DOMAIN template_object["IncludeAccounts"]
    /\ template_object["IncludeAccounts"][clause] # {}

\* C11: an IncludeAccounts passes validation exactly when AllAccounts is true
\* and no other clause is given a value, or AllAccounts is not true and at
\* least one of ByNames, ByIds, ByOrgUnits, ByTags is non-empty.
C11_IncludeValidation ==
    pc \in {"schema_loaded", "raised"} =>
        ( pc = "schema_loaded"
          <=> \/ AllAccountsSet /\ \A clause \in ClauseNames : ~ClauseGiven(clause)
              \/ ~AllAccountsSet /\ \E clause \in ClauseNames : ClauseGiven(clause) )

(***************************************************************************)
(* The fan-out handler: starbase/entrypoints.py fanout_payload_lambda_handler, *)
(* starbase/main.py fan_out_payload, _fan_out_timed_events, _fan_out_s3_events *)
(***************************************************************************)
\* STARFLEET_CONFIGURATION.config["STARFLEET"]["TemplateBucket"]
TemplateBucket == "starfleet-templates"

\* urllib.parse.unquote_plus, for the escapes that occur in the keys used here.
RECURSIVE unquote_plus(_)
unquote_plus(key) ==
    IF key = "" THEN ""
    ELSE IF startswith(key, "%20") THEN " " \o unquote_plus(SubSeq(key, 4, Len(key)))
    ELSE IF startswith(key, "%2B") THEN "+" \o unquote_plus(SubSeq(key, 4, Len(key)))
    ELSE IF startswith(key, "+") THEN " " \o unquote_plus(SubSeq(key, 2, Len(key)))
    ELSE SubSeq(key, 1, 1) \o unquote_plus(SubSeq(key, 2, Len(key)))

\* The worker ship instance registered under a name.
WorkerShip(ship_name) == [worker_ship_name |-> ship_name] @@ plugins[ship_name]

Last(f) == f[Len(f)]

\* _fan_out_payload_logic is entered: fetch_template, then the logic proper.
FanOutPayloadLogicBeginKeepsBatch(ship_name, template_prefix, via) ==
    /\ runs' = Append(runs, [worker_ship |-> ship_name, template_prefix |-> template_prefix,
                             via |-> via, from |-> Len(invocation_queue)])
    /\ IF template_prefix \notin DOMAIN objects
       THEN /\ Raise("ClientError")
            /\ UNCHANGED <<ship, template_object, batch>>
       ELSE /\ ship' = WorkerShip(ship_name)
            /\ template_object' = objects[template_prefix]
            /\ batch' = batch
            /\ pc' = "fan_out"
            /\ UNCHANGED raised

FanOutPayloadLogicBegin(ship_name, template_prefix, via) ==
    /\ runs' = Append(runs, [worker_ship |-> ship_name, template_prefix |-> template_prefix,
                             via |-> via, from |-> Len(invocation_queue)])
    /\ IF template_prefix \notin DOMAIN objects
       THEN /\ Raise("ClientError")
            /\ UNCHANGED <<ship, template_object, batch>>
       ELSE /\ ship' = WorkerShip(ship_name)
            /\ template_object' = objects[template_prefix]
            /\ batch' = <<>>
            /\ pc' = "fan_out"
            /\ UNCHANGED raised

\* _fan_out_s3_events after the bucket and suffix tests: the ship found, or "None".
FindShipAnySource(ships, config, template_prefix) ==
    LET caring == SelectSeq(ships, LAMBDA ship_name :
            \/ /\ endswith(config[ship_name]["TemplatePrefix"], ".yaml")
               /\ config[ship_name]["TemplatePrefix"] = template_prefix
            \/ startswith(template_prefix, config[ship_name]["TemplatePrefix"]))
    IN IF caring = <<>> THEN "None" ELSE Head(caring)

FindShip(ships, config, template_prefix) ==
    LET caring == SelectSeq(ships, LAMBDA ship_name :
            /\ "S3" \in config[ship_name]["InvocationSources"]
            /\ \/ /\ endswith(config[ship_name]["TemplatePrefix"], ".yaml")
                  /\ config[ship_name]["TemplatePrefix"] = template_prefix
               \/ startswith(template_prefix, config[ship_name]["TemplatePrefix"]))
    IN IF caring = <<>> THEN "None" ELSE Head(caring)

\* fanout_payload_lambda_handler: `for record in event["Records"]`, and
\* fan_out_payload up to the call of _fan_out_payload_logic
FanOutPayload ==
    /\ pc = "handler"
    /\ records # <<>>
    /\ records' = Tail(records)
    /\ LET payload == json_loads(Head(records)["body"])
           event_payload == payload
       IN IF get(event_payload, "worker_ship", "") # ""
          THEN /\ IF event_payload["worker_ship"]
                        \notin Range(get_worker_ships(configuration))
                  THEN /\ Raise("NoShipPluginError")
                       /\ UNCHANGED <<ship, template_object, batch, runs>>
                  ELSE FanOutPayloadLogicBegin(event_payload["worker_ship"],
                                               event_payload["template_prefix"], "worker_ship")
               /\ UNCHANGED s3_records
          ELSE IF get(event_payload, "Records", <<>>) # <<>>
          THEN /\ s3_records' = event_payload["Records"]
               /\ pc' = "s3_records"
               /\ UNCHANGED <<ship, template_object, batch, runs, raised>>
          ELSE UNCHANGED <<pc, s3_records, ship, template_object, batch, runs, raised>>
    /\ UNCHANGED <<processVars, snapshot, indexVars, lookup, resolveVars, original_template,
                   verified_template, todo, inner, current_account, region_order,
                   invocation_queue, timedVars, plugins, objects, sendVars>>

InvalidBucketNever(record) == FALSE

\* _fan_out_s3_events: the record's bucket is not the configured TemplateBucket
InvalidBucket(record) == TemplateBucket # record["s3"]["bucket"]["name"]

\* fan_out_payload: one turn of `for record in event_payload["Records"]`
FanOutS3RecordRawKey ==
    /\ pc = "s3_records"
    /\ s3_records # <<>>
    /\ s3_records' = Tail(s3_records)
    /\ LET record == Head(s3_records)
       IN IF "s3" \notin DOMAIN record
          THEN UNCHANGED <<pc, ship, template_object, batch, runs, raised>>
          ELSE IF InvalidBucket(record)
          THEN /\ Raise("InvalidBucketError")
               /\ UNCHANGED <<ship, template_object, batch, runs>>
          ELSE LET template_prefix == record["s3"]["object"]["key"]
                   found_ship == FindShip(get_worker_ships(configuration), configuration,
                                          template_prefix)
               IN IF ~endswith(template_prefix, ".yaml") \/ found_ship = "None"
                  THEN UNCHANGED <<pc, ship, template_object, batch, runs, raised>>
                  ELSE FanOutPayloadLogicBegin(found_ship, template_prefix, "Records")
    /\ UNCHANGED <<processVars, snapshot, indexVars, lookup, resolveVars, original_template,
                   verified_template, todo, inner, current_account, region_order,
                   invocation_queue, timedVars, plugins, objects, records, sendVars>>

FanOutS3Record ==
    /\ pc = "s3_records"
    /\ s3_records # <<>>
    /\ s3_records' = Tail(s3_records)
    /\ LET record == Head(s3_records)
       IN IF "s3" \notin DOMAIN record
          THEN UNCHANGED <<pc, ship, template_object, batch, runs, raised>>
          ELSE IF InvalidBucket(record)
          THEN /\ Raise("InvalidBucketError")
               /\ UNCHANGED <<ship, template_object, batch, runs>>
          ELSE LET template_prefix == unquote_plus(record["s3"]["object"]["key"])
                   found_ship == FindShip(get_worker_ships(configuration), configuration,
                                          template_prefix)
               IN IF ~endswith(template_prefix, ".yaml") \/ found_ship = "None"
                  THEN UNCHANGED <<pc, ship, template_object, batch, runs, raised>>
                  ELSE FanOutPayloadLogicBegin(found_ship, template_prefix, "Records")
    /\ UNCHANGED <<processVars, snapshot, indexVars, lookup, resolveVars, original_template,
                   verified_template, todo, inner, current_account, region_order,
                   invocation_queue, timedVars, plugins, objects, records, sendVars>>

\* fan_out_payload: the nested records are exhausted
FanOutS3Return ==
    /\ pc = "s3_records"
    /\ s3_records = <<>>
    /\ pc' = "handler"
    /\ UNCHANGED <<processVars, snapshot, indexVars, lookup, resolveVars, fanVars, timedVars, deliveryVars,
                   sendVars>>

\* _fan_out_payload_logic returns to the loop that called it
FanOutPayloadLogicReturn ==
    /\ pc = "done"
    /\ runs # <<>>
    /\ pc' = IF Last(runs).via = "Records" THEN "s3_records" ELSE "handler"
    /\ UNCHANGED <<processVars, snapshot, indexVars, lookup, resolveVars, fanVars, timedVars, deliveryVars,
                   sendVars>>

\* "Completed Starbase Worker Ship fanout."
HandlerReturn ==
    /\ pc = "handler"
    /\ records = <<>>
    /\ pc' = "returned"
    /\ UNCHANGED <<processVars, snapshot, indexVars, lookup, resolveVars, fanVars, timedVars, deliveryVars,
                   sendVars>>

(***************************************************************************)
(* The deliveries, plugins and template buckets the handler is run on      *)
(***************************************************************************)
MaxRecords == 2

\* ShipC's class is a single-invocation worker, or a worker whose payload
\* class does not fit its fan-out strategy.
PluginTables ==
    { [ShipA |-> [fan_out_strategy |-> "ACCOUNT",
                  payload_template_class |-> "BaseAccountPayloadTemplate"],
       ShipB |-> [fan_out_strategy |-> "ACCOUNT_REGION",
                  payload_template_class |-> "BaseAccountRegionPayloadTemplate"],
       ShipC |-> c] :
        c \in { [fan_out_strategy |-> "SINGLE_INVOCATION",
                 payload_template_class |-> "WorkerShipPayloadBaseTemplate"],
                [fan_out_strategy |-> "ACCOUNT",
                 payload_template_class |-> "WorkerShipPayloadBaseTemplate"],
                [fan_out_strategy |-> "ACCOUNT_REGION",
                 payload_template_class |-> "BaseAccountPayloadTemplate"] } }

DeliverySources ==
    { [InvocationSources |-> {"S3"}],
      [InvocationSources |-> {"EVENTBRIDGE_TIMED_EVENT"}, EventBridgeTimedFrequency |-> "HOURLY"] }

DeliveryConfigurations ==
    { [ShipA |-> a, ShipB |-> b, ShipC |-> c] :
        a \in ShipConfigs("ShipA/", DeliverySources),
        b \in { [Enabled |-> TRUE, TemplatePrefix |-> "ShipB/template.yaml",
                 InvocationSources |-> {"S3"}] },
        c \in ShipConfigs("Ship", DeliverySources) }

TemplateHead == [TemplateName |-> "TestWorkerTemplate", TemplateDescription |-> "A template"]

TemplateObjects ==
    [key \in {"ShipA/template01.yaml", "ShipA/my template.yaml", "ShipA/bad.yaml",
              "ShipA/none.yaml", "ShipB/template.yaml", "ShipA/notes.txt"} |->
        CASE key = "ShipA/template01.yaml" ->
                TemplateHead @@ [IncludeAccounts |-> [AllAccounts |-> TRUE],
                                 ExcludeAccounts |-> [ByNames |-> {"Account 1"}],
                                 IncludeRegions |-> {"ALL"}]
          [] key = "ShipA/my template.yaml" ->
                TemplateHead @@ [IncludeAccounts |-> [ByNames |-> {"Account 1", "account 2"}],
                                 IncludeRegions |-> {"us-east-1", "us-west-1"}]
          [] key = "ShipA/bad.yaml" ->
                [TemplateDescription |-> "A template without a name",
                 IncludeAccounts |-> [AllAccounts |-> TRUE], IncludeRegions |-> {"ALL"}]
          [] key = "ShipA/none.yaml" ->
                TemplateHead @@ [IncludeAccounts |-> [ByNames |-> {"nonexistent"}],
                                 IncludeRegions |-> {"ALL"}]
          [] key = "ShipB/template.yaml" ->
                TemplateHead @@ [IncludeAccounts |-> [AllAccounts |-> TRUE],
                                 OperateInOrgRoot |-> TRUE,
                                 IncludeRegions |-> {"ALL"},
                                 ExcludeRegions |-> {"us-west-1"}]
          [] OTHER -> EmptyDict]

TimedPayload(ship_name, template_prefix) ==
    [worker_ship |-> ship_name, template_prefix |-> template_prefix]

S3Record(bucket_name, key) ==
    [s3 |-> [bucket |-> [name |-> bucket_name], object |-> [key |-> key]]]

S3Payload(nested) == [Records |-> nested]

Payloads ==
    { TimedPayload("ShipA", "ShipA/template01.yaml"),
      TimedPayload("ShipA", "ShipA/my template.yaml"),
      TimedPayload("ShipA", "ShipA/bad.yaml"),
      TimedPayload("ShipA", "ShipA/none.yaml"),
      TimedPayload("ShipA", "ShipA/missing.yaml"),
      TimedPayload("ShipB", "ShipB/template.yaml"),
      TimedPayload("ShipC", "ShipA/template01.yaml"),
      TimedPayload("ShipZ", "ShipA/template01.yaml"),
      S3Payload(<<S3Record(TemplateBucket, "ShipA/template01.yaml")>>),
      S3Payload(<<S3Record(TemplateBucket, "ShipA/my+template.yaml")>>),
      S3Payload(<<S3Record(TemplateBucket, "ShipA/notes.txt")>>),
      S3Payload(<<S3Record(TemplateBucket, "Other/template.yaml")>>),
      S3Payload(<<S3Record(TemplateBucket, "ShipB/template.yaml")>>),
      S3Payload(<<S3Record("another-bucket", "ShipA/template01.yaml")>>),
      S3Payload(<<S3Record(TemplateBucket, "ShipA/bad.yaml"),
                  S3Record(TemplateBucket, "ShipA/template01.yaml")>>),
      S3Payload(<<[sns |-> "notification"], S3Record(TemplateBucket, "ShipB/template.yaml")>>),
      [unsupported |-> "event"] }

\* The Lambda event of an SQS delivery: each record's body is a payload's JSON text.
Deliveries ==
    { [Records |-> bodies] :
        bodies \in UNION { [1..n -> { [body |-> json_dumps(payload)] : payload \in Payloads }] :
                           n \in 1..MaxRecords } }

DeliveryInit ==
    /\ pc = "handler"
    /\ ProcessIdle
    /\ snapshot = FanSnapshot(3)
    /\ IndexLoaded(snapshot)
    /\ lookup = <<>>
    /\ ResolveIdle
    /\ ship = NoShip
    /\ template_object = EmptyDict
    /\ original_template = EmptyDict
    /\ verified_template = EmptyDict
    /\ todo = <<>>
    /\ inner = <<>>
    /\ current_account = "None"
    /\ region_order = "ascending"
    /\ batch = <<>>
    /\ invocation_queue = <<>>
    /\ raised = "None"
    /\ event \in Deliveries
    /\ configuration \in DeliveryConfigurations
    /\ bucket = <<>>
    /\ need_to_task = <<>>
    /\ worker_template_list = <<>>
    /\ start = 0
    /\ fanout_queue = <<>>
    /\ plugins \in PluginTables
    /\ objects = TemplateObjects
    /\ records = event["Records"]
    /\ s3_records = <<>>
    /\ runs = <<>>
    /\ NoSendFails

DeliveryNext ==
    \/ FanOutPayload
    \/ FanOutS3Record
    \/ FanOutS3Return
    \/ FanOutPayloadLogicReturn
    \/ HandlerReturn
    \/ FanOutPayloadLogic
    \/ AccountFanoutLoop
    \/ AccountFanoutStragglers
    \/ AccountRegionFanoutOuter
    \/ AccountRegionFanoutInner
    \/ AccountRegionFanoutStragglers

SpecDelivery == DeliveryInit /\ [][DeliveryNext]_vars

(***************************************************************************)
(* Properties of the fan-out handler                                       *)
(***************************************************************************)
PluginPosition(ship_name) == CHOOSE i \in DOMAIN Plugins : Plugins[i] = ship_name

First(ship_names) ==
    IF ship_names = {} THEN "None"
    ELSE CHOOSE W \in ship_names :
            \A V \in ship_names : PluginPosition(W) <= PluginPosition(V)

\* The enabled workers whose TemplatePrefix is the key itself, a .yaml path,
\* or a prefix of the key.
CaringWorkers(key) ==
    { W \in DOMAIN configuration :
        /\ configuration[W]["Enabled"]
        /\ \/ /\ endswith(configuration[W]["TemplatePrefix"], ".yaml")
              /\ configuration[W]["TemplatePrefix"] = key
           \/ startswith(key, configuration[W]["TemplatePrefix"]) }

S3Workers == { W \in DOMAIN configuration : "S3" \in configuration[W]["InvocationSources"] }

\* The handler is about to visit a store-change record on the template
\* bucket whose decoded key ends in .yaml.
AtTemplateRecord ==
    /\ pc = "s3_records"
    /\ s3_records # <<>>
    /\ "s3" \in DOMAIN Head(s3_records)
    /\ Head(s3_records)["s3"]["bucket"]["name"] = TemplateBucket
    /\ endswith(unquote_plus(Head(s3_records)["s3"]["object"]["key"]), ".yaml")

RecordKey == unquote_plus(Head(s3_records)["s3"]["object"]["key"])

\* The record is handed to stage 2 for worker W, or dropped when W is "None".
HandedTo(W) ==
    IF W = "None"
    THEN /\ UNCHANGED <<runs, invocation_queue, fanout_queue, raised>>
         /\ pc' = "s3_records"
    ELSE /\ Len(runs') = Len(runs) + 1
         /\ Last(runs').worker_ship = W
         /\ Last(runs').template_prefix = RecordKey

\* C12 as stated: the worker handed to stage 2 is the first enabled worker, in
\* registry order, whose TemplatePrefix is the key or a prefix of it; with no
\* such worker the record is dropped, nothing enqueued, nothing raised.
C12_FirstEnabledWorker ==
    [][AtTemplateRecord => HandedTo(First(CaringWorkers(RecordKey)))]_vars

\* C12 amended: the worker handed to stage 2 is the first enabled worker, in
\* registry order, whose InvocationSources contain S3 and whose TemplatePrefix
\* is the key or a prefix of it; with no such worker the record is dropped,
\* nothing enqueued, nothing raised.
C12_FirstEnabledS3Worker ==
    [][AtTemplateRecord => HandedTo(First(CaringWorkers(RecordKey) \cap S3Workers))]_vars

\* A record under ShipA/ went to ShipC: ShipA is enabled but does not listen to S3.
C12_Witness ==
    /\ runs # <<>>
    /\ Last(runs).via = "Records"
    /\ Last(runs).worker_ship = "ShipC"
    /\ startswith(Last(runs).template_prefix, "ShipA/")
    /\ configuration["ShipA"]["Enabled"]

\* The message bodies of the calls made on a queue, in order.
RECURSIVE BodiesOf(_)
BodiesOf(queue) ==
    IF queue = <<>> THEN <<>>
    ELSE (IF Head(queue).call = "send_message_batch"
          THEN [i \in DOMAIN Head(queue).Entries |-> Head(queue).Entries[i].MessageBody]
          ELSE <<Head(queue).MessageBody>>)
         \o BodiesOf(Tail(queue))

\* The bodies enqueued by the i-th call of _fan_out_payload_logic.
BodiesOfRun(i) ==
    BodiesOf(SubSeq(invocation_queue, runs[i].from + 1,
                    IF i < Len(runs) THEN runs[i + 1].from ELSE Len(invocation_queue)))

Count(f, x) == Cardinality({ i \in DOMAIN f : f[i] = x })

SameCollection(f, g) == \A x \in Range(f) \cup Range(g) : Count(f, x) = Count(g, x)

Delivered(i) == json_loads(event["Records"][i]["body"])

\* Record i of the delivery is one store-change record on the template bucket
\* whose decoded key K ends in .yaml and maps to worker W, and record j is the
\* stage-1 request {worker_ship: W, template_prefix: K}.
SameRequest(i, j) ==
    /\ get(Delivered(i), "Records", <<>>) # <<>>
    /\ Len(Delivered(i)["Records"]) = 1
    /\ LET record == Delivered(i)["Records"][1]
       IN /\ "s3" \in DOMAIN record
          /\ record["s3"]["bucket"]["name"] = TemplateBucket
          /\ LET K == unquote_plus(record["s3"]["object"]["key"])
                 W == First(CaringWorkers(K) \cap S3Workers)
             IN /\ endswith(K, ".yaml")
                /\ W # "None"
                /\ Delivered(j) = TimedPayload(W, K)

\* C13: a store-change record with key K that maps to worker W and the
\* stage-1 request {worker_ship: W, template_prefix: K}, handled one after the
\* other under the same template, index and configuration, run stage 2 for
\* the same worker and template; once the first has completed the second
\* does not fail, and both enqueue the same collection of message bodies.
C13_StoreChangeAsRequest ==
    (Len(event["Records"]) = 2 /\ (SameRequest(1, 2) \/ SameRequest(2, 1))) =>
        /\ Len(runs) = 2 =>
                /\ runs[1].worker_ship = runs[2].worker_ship
                /\ runs[1].template_prefix = runs[2].template_prefix
                /\ pc # "raised"
        /\ pc = "returned" =>
                /\ Len(runs) = 2
                /\ SameCollection(BodiesOfRun(1), BodiesOfRun(2))

\* Both were handled, the key needed decoding, and several messages were enqueued.
C13_Witness ==
    /\ pc = "returned"
    /\ Len(event["Records"]) = 2
    /\ SameRequest(2, 1)
    /\ runs[2].template_prefix = "ShipA/my template.yaml"
    /\ Len(BodiesOfRun(2)) >= 2

\* The next nested record is a store-change record on another bucket.
AtForeignBucketRecord ==
    /\ pc = "s3_records"
    /\ s3_records # <<>>
    /\ "s3" \in DOMAIN Head(s3_records)
    /\ Head(s3_records)["s3"]["bucket"]["name"] # TemplateBucket

\* C14: handling a store-change record whose bucket name differs from the
\* configured TemplateBucket raises InvalidBucketError, emits no message on
\* the invocation queue or the fan-out queue and starts no stage-2 run, and
\* nothing happens after the error.
C14_InvalidBucket ==
    [][/\ AtForeignBucketRecord =>
            /\ raised' = "InvalidBucketError"
            /\ pc' = "raised"
            /\ UNCHANGED <<invocation_queue, fanout_queue, runs>>
       /\ raised = "InvalidBucketError" => UNCHANGED vars]_vars

\* The error was raised for a record whose key names a template of an enabled
\* S3 worker.
C14_Witness ==
    /\ raised = "InvalidBucketError"
    /\ pc = "raised"
    /\ \E i \in DOMAIN event["Records"] :
          /\ get(Delivered(i), "Records", <<>>) # <<>>
          /\ \E n \in DOMAIN Delivered(i)["Records"] :
                LET record == Delivered(i)["Records"][n]
                IN /\ "s3" \in DOMAIN record
                   /\ record["s3"]["bucket"]["name"] # TemplateBucket
                   /\ FindShip(get_worker_ships(configuration), configuration,
                               unquote_plus(record["s3"]["object"]["key"])) # "None"
                   /\ unquote_plus(record["s3"]["object"]["key"]) \in DOMAIN objects

\* The errors of a fan-out request that are raised ahead of tasking.
RequestErrors == {"NoShipPluginError", "ValidationError", "InvalidTemplateForFanoutError"}

\* The next record of the delivery is a fan-out request naming a worker that
\* is not among the loaded (enabled) worker ships.
AtAbsentWorkerRequest ==
    /\ pc = "handler"
    /\ records # <<>>
    /\ LET request == json_loads(Head(records)["body"])
       IN /\ get(request, "worker_ship", "") # ""
          /\ \/ request["worker_ship"] \notin DOMAIN configuration
             \/ ~configuration[request["worker_ship"]]["Enabled"]

\* Stage 2 holds a fetched template that fails the worker's payload schema.
AtInvalidTemplate ==
    /\ pc = "fan_out"
    /\ load(ship.payload_template_class, template_object).errors

\* Stage 2 holds a template that passes the schema of a worker whose schema
\* class is not the one its ACCOUNT or ACCOUNT_REGION strategy requires.
AtMismatchedWorker ==
    /\ pc = "fan_out"
    /\ ~load(ship.payload_template_class, template_object).errors
    /\ \/ /\ ship.fan_out_strategy = "ACCOUNT"
          /\ ship.payload_template_class \notin
                {"BaseAccountPayloadTemplate", "BaseAccountRegionPayloadTemplate"}
       \/ /\ ship.fan_out_strategy = "ACCOUNT_REGION"
          /\ ship.payload_template_class # "BaseAccountRegionPayloadTemplate"

\* C15: a request naming a worker absent from the registry raises
\* NoShipPluginError; a template failing the worker's payload schema raises
\* ValidationError; a template that passes the schema of a worker whose schema
\* class does not match its ACCOUNT or ACCOUNT_REGION strategy raises
\* InvalidTemplateForFanoutError. Whenever one of the three is raised, the
\* invocation queue holds no message of that request: the raising step sends
\* nothing, and nothing was sent since the request's run began.
C15_ErrorsBeforeTasking ==
    [][/\ AtAbsentWorkerRequest => raised' = "NoShipPluginError" /\ runs' = runs
       /\ AtInvalidTemplate => raised' = "ValidationError"
       /\ AtMismatchedWorker => raised' = "InvalidTemplateForFanoutError"
       /\ (raised = "None" /\ raised' \in RequestErrors) =>
            /\ pc' = "raised"
            /\ invocation_queue' = invocation_queue
            /\ raised' # "NoShipPluginError" => Len(invocation_queue) = Last(runs).from]_vars

\* One delivery in which an error of each kind could be met: here the third,
\* raised for the second request after the first one was tasked.
C15_Witness ==
    /\ raised = "InvalidTemplateForFanoutError"
    /\ pc = "raised"
    /\ Len(runs) = 2
    /\ invocation_queue # <<>>

\* The invocation of the fan-out handler is over: it returned or an error left it.
InvocationOver == pc \in {"returned", "raised"}

\* C16: when the invocation of the fan-out handler is over, every record of
\* the delivery has been taken up for fan-out, whatever happened to the
\* records ahead of it.
C16_EveryRecordFannedOut == InvocationOver => records = <<>>

\* The worker is an ACCOUNT worker and its template, valid for its schema,
\* resolves to no account.
EmptyAccountTarget ==
    /\ ship.fan_out_strategy = "ACCOUNT"
    /\ ship.payload_template_class \in
          {"BaseAccountPayloadTemplate", "BaseAccountRegionPayloadTemplate"}
    /\ LET loaded == load(ship.payload_template_class, template_object)
       IN /\ ~loaded.errors
          /\ resolve_worker_template_accounts(loaded.data) = {}

\* The per-account region sets the worker's valid ACCOUNT_REGION template resolves to.
RegionTarget ==
    resolve_worker_template_account_regions(
        load(ship.payload_template_class, template_object).data, TRUE, ScopeToRegions)

\* The worker is an ACCOUNT_REGION worker and the region sets its template
\* resolves to are all empty.
EmptyRegionTarget ==
    /\ ship.fan_out_strategy = "ACCOUNT_REGION"
    /\ ship.payload_template_class = "BaseAccountRegionPayloadTemplate"
    /\ ~load(ship.payload_template_class, template_object).errors
    /\ \A account \in DOMAIN RegionTarget : RegionTarget[account] = {}

\* C17: once stage 2 has taken up an ACCOUNT template that resolves to no
\* account, or an ACCOUNT_REGION template whose region sets sum to zero, it
\* has returned normally: nothing was sent and nothing was raised.
C17_NothingToTask ==
    (pc # "fan_out" /\ (EmptyAccountTarget \/ EmptyRegionTarget)) =>
        /\ pc = "done"
        /\ invocation_queue = <<>>
        /\ raised = "None"

\* Accounts were resolved, but none of them has a region left.
C17_Witness ==
    /\ pc = "done"
    /\ EmptyRegionTarget
    /\ DOMAIN RegionTarget # {}

\* The workers named by the messages on the fan-out queue.
TaskedWorkers == { FanOutMessages[i].worker_ship : i \in DOMAIN FanOutMessages }

\* C18: on a timed event, a matching worker whose template listing is empty
\* never has a message enqueued for it, nothing is raised on its account, and
\* once the handler has returned every matching worker that has templates
\* has been tasked with all of them.
C18_EmptyListingSkipped ==
    event.name \in EventBridgeFrequency =>
        /\ \A W \in DOMAIN configuration :
              (Matches(W) /\ ListedFor(W) = {}) => W \notin TaskedWorkers
        /\ raised = "None"
        /\ pc = "done" =>
              \A V \in DOMAIN configuration :
                 (Matches(V) /\ ListedFor(V) # {}) =>
                    \A t \in ListedFor(V) :
                       [worker_ship |-> V, template_prefix |-> t] \in Range(FanOutMessages)

\* A matching worker without templates came ahead of a matching worker with
\* templates, and the latter was tasked.
C18_Witness ==
    /\ event.name \in EventBridgeFrequency
    /\ pc = "done"
    /\ \E W, V \in DOMAIN configuration :
          /\ Matches(W) /\ ListedFor(W) = {}
          /\ Matches(V) /\ ListedFor(V) # {}
          /\ PluginPosition(W) < PluginPosition(V)
          /\ V \in TaskedWorkers

(***************************************************************************)
(* A send_message_batch call that SQS fails                                *)
(***************************************************************************)
MaxFailAt == 3

\* The timed event or the fan-out of Spec, with the fail_at-th
\* send_message_batch call of the invocation failing.
SendFailsInit ==
    /\ TimedInputs \/ FanOutInputs
    /\ fail_at \in 1..MaxFailAt
    /\ send_attempts = 0

SpecSendFails == SendFailsInit /\ [][Next]_vars

\* The send_message_batch calls that went through, on either queue.
RECURSIVE BatchCalls(_)
BatchCalls(queue) ==
    IF queue = <<>> THEN 0
    ELSE (IF Head(queue).call = "send_message_batch" THEN 1 ELSE 0) + BatchCalls(Tail(queue))

\* C19: once the send_message_batch call that fails has been made, the
\* invocation has ended with that error; the failed call is not repeated and
\* no further call is made, so the queues hold exactly the batches sent
\* before it. No such error is seen before that call.
C19_FailedBatchPropagates ==
    /\ send_attempts >= fail_at =>
          /\ pc = "raised"
          /\ raised = "ClientError"
          /\ send_attempts = fail_at
          /\ BatchCalls(fanout_queue) + BatchCalls(invocation_queue) = fail_at - 1
    /\ send_attempts < fail_at => raised # "ClientError"

\* The second batch of a worker failed after its first went through, with
\* another worker still waiting to be tasked.
C19_Witness ==
    /\ raised = "ClientError"
    /\ pc = "raised"
    /\ fail_at = 2
    /\ Len(fanout_queue) = 1
    /\ Len(need_to_task) >= 2

\* The delivery holds the same stage-1 fan-out request twice.
SameRequestTwice ==
    /\ Len(event["Records"]) = 2
    /\ Delivered(1) = Delivered(2)
    /\ get(Delivered(1), "worker_ship", "") # ""

FrameRef(owner, key) == [owner |-> owner, key |-> key]

Local == FrameRef("local", <<>>)

\* One in-place operation on a set object.
Write(target, op, arg) == [target |-> target, op |-> op, arg |-> arg]

\* resolve_account_specification: account_set = set() and its update() calls.
\* The sets the index hands out are arguments of update(), never its target.
SpecificationWrites(account_spec) ==
    << Write(Local, "update", get_accounts_by_ids(account_spec.by_ids)),
       Write(Local, "update", get_accounts_by_aliases(account_spec.by_names)),
       Write(Local, "update",
             UNION { get_accounts_by_ou(org_unit) : org_unit \in account_spec.by_org_units }),
       Write(Local, "update",
             UNION { get_accounts_by_tag(tag.name, tag.value) : tag \in account_spec.by_tags }) >>

\* resolve_include_account_specification: with all_accounts the result IS the
\* set get_all_accounts returns, self.account_ids itself.
IncludedRef(include_account_spec) ==
    IF include_account_spec.all_accounts THEN FrameRef("account_ids", <<>>) ELSE Local

IncludeWrites(include_account_spec) ==
    IF include_account_spec.all_accounts THEN <<>>
    ELSE SpecificationWrites(include_account_spec)

ExcludeWrites(template) ==
    IF Truthy(template.exclude_accounts)
    THEN SpecificationWrites(template.exclude_accounts)
    ELSE <<>>

ResolveWritesInPlace(template) ==
    IncludeWrites(template.include_accounts) \o ExcludeWrites(template)
    \o << Write(IncludedRef(template.include_accounts), "difference_update",
                IF Truthy(template.exclude_accounts)
                THEN resolve_account_specification(template.exclude_accounts)
                ELSE {}) >>

\* resolve_include_exclude and resolve_worker_template_accounts: the two
\* subtractions are `a - b`, which build new sets and write to neither operand.
ResolveWrites(template) ==
    IncludeWrites(template.include_accounts) \o ExcludeWrites(template)

\* resolve_worker_template_account_regions: account_region_map[account] is a
\* new set() and add() is called on it.
RegionWrites(template, check, scope) ==
    LET resolved == resolve_worker_template_account_regions(template, check, scope)
        accounts == OrderedAccounts(DOMAIN resolved, "ascending")
    IN ResolveWrites(template)
       \o [i \in DOMAIN accounts |-> Write(Local, "update", resolved[accounts[i]])]

\* The contents of a set object after the writes aimed at it.
RECURSIVE Written(_, _, _)
Written(ref, contents, writes) ==
    IF writes = <<>> THEN contents
    ELSE LET w == Head(writes)
         IN Written(ref,
                    IF w.target # ref THEN contents
                    ELSE IF w.op = "update" THEN contents \cup w.arg
                    ELSE contents \ w.arg,
                    Tail(writes))

\* The index after a call that made these writes.
IndexWritten(writes) ==
    /\ account_ids' = Written(FrameRef("account_ids", <<>>), account_ids, writes)
    /\ alias_map' = alias_map
    /\ ou_map' = [k \in DOMAIN ou_map |-> Written(FrameRef("ou_map", <<k>>), ou_map[k], writes)]
    /\ regions_map' =
          [r \in DOMAIN regions_map |->
              Written(FrameRef("regions_map", <<r>>), regions_map[r], writes)]
    /\ tag_map' =
          [n \in DOMAIN tag_map |->
              [v \in DOMAIN tag_map[n] |->
                  Written(FrameRef("tag_map", <<n, v>>), tag_map[n][v], writes)]]
    /\ org_roots' = Written(FrameRef("org_roots", <<>>), org_roots, writes)

FrameIncludes == {
    [all_accounts |-> TRUE] @@ Selector({}, {}, {}, {}),
    [all_accounts |-> FALSE] @@ Selector({"02", "99"}, {}, {}, {}),
    [all_accounts |-> FALSE] @@ Selector({}, {}, {"DEV", "fakeOU"}, {}),
    [all_accounts |-> FALSE] @@ Selector({"03"}, {"Account 2"}, {"Prod"}, {Tag("env", "dev")}) }

FrameExcludes == {
    EmptyDict,
    Selector({"01"}, {}, {}, {}),
    Selector({}, {"Account 1", "nonexistent"}, {"ou-3"}, {Tag("Team", "Sec")}) }

FrameAccountTemplates ==
    [include_accounts : FrameIncludes, exclude_accounts : FrameExcludes,
     operate_in_org_root : BOOLEAN, include_regions : {{}}, exclude_regions : {{}}]

FrameRegionTemplates ==
    [include_accounts : { [all_accounts |-> TRUE] @@ Selector({}, {}, {}, {}),
                          [all_accounts |-> FALSE] @@ Selector({}, {}, {"DEV", "r-1"}, {}) },
     exclude_accounts : { EmptyDict, Selector({"01"}, {}, {}, {}) },
     operate_in_org_root : {FALSE},
     include_regions : { SupportedRegions, {"us-east-1", "ap-south-1"} },
     exclude_regions : { {}, {"us-west-1"} }]

\* The lookups a caller can make, with keys the index knows and keys it does not.
FrameLookups ==
    { <<"ids", ids, get_accounts_by_ids(ids)>> : ids \in { {}, {"01", "99"}, {"02", "03"} } }
    \cup { <<"aliases", names, get_accounts_by_aliases(names)>> :
             names \in { {"Account 1", "nonexistent"}, {"aCCount 2"} } }
    \cup { <<"tag", tag, get_accounts_by_tag(tag.name, tag.value)>> :
             tag \in { Tag("ENV", "prod"), Tag("env", "nope"), Tag("nope", "prod") } }
    \cup { <<"ou", k, get_accounts_by_ou(k)>> : k \in OuKeys }
    \cup { <<"regions", regions, get_accounts_by_regions(regions)>> :
             regions \in { {"us-east-1", "mars-1"}, {"eu-west-1"} } }
    \cup { <<"all_regions", {}, get_accounts_for_all_regions>>,
           <<"all", {}, get_all_accounts>> }

MaxFrameAccounts == 2

FrameInit ==
    /\ pc = "start"
    /\ snapshot \in AscSnapshots(MaxFrameAccounts)
    /\ account_ids = {}
    /\ alias_map = EmptyDict
    /\ ou_map = EmptyDict
    /\ regions_map = EmptyDict
    /\ tag_map = EmptyDict
    /\ org_roots = {}
    /\ lookup = <<>>
    /\ ResolveIdle
    /\ FanIdle

\* ACCOUNT_INDEX.index: the index is instantiated on the first use only.
FrameLoadIndex ==
    /\ pc = "start"
    /\ LET st == LoadInventory(EmptyIndex, snapshot)
       IN /\ account_ids' = st.account_ids
          /\ alias_map' = st.alias_map
          /\ ou_map' = OuMapOf(st)
          /\ regions_map' = st.regions_map
          /\ tag_map' = st.tag_map
          /\ org_roots' = OrgRootsOf(snapshot)
    /\ pc' = "loaded"
    /\ UNCHANGED <<processVars, snapshot, lookup, resolveVars, fanVars, timedVars, deliveryVars,
                   sendVars>>

\* One of the index's get_* methods: they only read.
FrameLookup ==
    /\ pc = "loaded"
    /\ lookup' \in FrameLookups
    /\ IndexWritten(<<>>)
    /\ loaded_template' = NoTemplate
    /\ resolved_accounts' = {}
    /\ account_region_map' = EmptyDict
    /\ todo' = <<>>
    /\ UNCHANGED <<processVars, pc, snapshot, org_root_check, ScopeToRegions, ship, template_object,
                   original_template, verified_template, inner, current_account,
                   region_order, batch, invocation_queue, raised, timedVars, deliveryVars,
                   sendVars>>

\* resolve_worker_template_accounts on some template
FrameResolveAccounts ==
    /\ pc = "loaded"
    /\ \E template \in FrameAccountTemplates :
          /\ loaded_template' = template
          /\ resolved_accounts' = resolve_worker_template_accounts(template)
          /\ IndexWritten(ResolveWrites(template))
    /\ lookup' = <<>>
    /\ account_region_map' = EmptyDict
    /\ todo' = <<>>
    /\ UNCHANGED <<processVars, pc, snapshot, org_root_check, ScopeToRegions, ship, template_object,
                   original_template, verified_template, inner, current_account,
                   region_order, batch, invocation_queue, raised, timedVars, deliveryVars,
                   sendVars>>

\* resolve_worker_template_account_regions on some template
FrameResolveRegions ==
    /\ pc = "loaded"
    /\ \E template \in FrameRegionTemplates, scope \in {{}, {"us-east-1"}} :
          /\ loaded_template' = template
          /\ account_region_map' =
                resolve_worker_template_account_regions(template, TRUE, scope)
          /\ IndexWritten(RegionWrites(template, TRUE, scope))
    /\ lookup' = <<>>
    /\ resolved_accounts' = {}
    /\ todo' = <<>>
    /\ UNCHANGED <<processVars, pc, snapshot, org_root_check, ScopeToRegions, ship, template_object,
                   original_template, verified_template, inner, current_account,
                   region_order, batch, invocation_queue, raised, timedVars, deliveryVars,
                   sendVars>>

\* account_fanout on some template: it resolves and then iterates over the
\* resolved set, which it only reads.
FrameAccountFanout ==
    /\ pc = "loaded"
    /\ \E template \in { t \in FrameAccountTemplates : t.operate_in_org_root },
          direction \in Directions :
          /\ loaded_template' = template
          /\ todo' = OrderedAccounts(resolve_worker_template_accounts(template), direction)
          /\ IndexWritten(ResolveWrites(template))
    /\ lookup' = <<>>
    /\ resolved_accounts' = {}
    /\ account_region_map' = EmptyDict
    /\ UNCHANGED <<processVars, pc, snapshot, org_root_check, ScopeToRegions, ship, template_object,
                   original_template, verified_template, inner, current_account,
                   region_order, batch, invocation_queue, raised, timedVars, deliveryVars,
                   sendVars>>

FrameNext ==
    \/ FrameLoadIndex
    \/ FrameLookup
    \/ FrameResolveAccounts
    \/ FrameResolveRegions
    \/ FrameAccountFanout

SpecFrame == FrameInit /\ [][FrameNext]_vars

\* C21: once built, the index keeps the contents it was built with: after any
\* sequence of lookups, account resolutions, account/region resolutions and
\* fan-outs, all accounts, aliases, by region, by OU and by tag are what the
\* snapshot gives.
C21_IndexImmutable == pc = "loaded" => IndexLoaded(snapshot)

\* An all-accounts template with exclusions was resolved: the resolver held
\* the index's own set of all accounts and subtracted from it.
C21_Witness ==
    /\ pc = "loaded"
    /\ loaded_template # NoTemplate
    /\ loaded_template.include_accounts.all_accounts
    /\ Truthy(loaded_template.exclude_accounts)
    /\ resolved_accounts # {}
    /\ resolved_accounts # account_ids

(***************************************************************************)
(* The worker ship registry: worker_ships/loader.py                        *)
(***************************************************************************)
InvocationSource == {"S3", "SQS", "EVENTBRIDGE_TIMED_EVENT"}

\* AlertPriority: the name of each level and its value.
AlertPriority ==
    [NONE |-> 0, PROBLEM |-> 1, IMPORTANT |-> 2, SUCCESS |-> 3, INFORMATIONAL |-> 4]

\* Schema.validate(alert_configuration) of the nested AlertConfiguration.
validate_alert_configuration(alert_configuration) ==
    \/ "ChannelId" \notin DOMAIN alert_configuration
    \/ "AlertPriority" \notin DOMAIN alert_configuration
    \/ alert_configuration["AlertPriority"] \notin DOMAIN AlertPriority

\* Schema.validate(section) of WorkerShipBaseConfigurationTemplate: the fields
\* are deserialized and their validators run; validate() does not run the
\* @post_load processors of the schema, validate_eventbridge_timed_frequencies
\* among them.
validate(worker_ship_config) ==
    \/ "Enabled" \notin DOMAIN worker_ship_config
    \/ "TemplatePrefix" \notin DOMAIN worker_ship_config
    \/ "InvocationQueueUrl" \notin DOMAIN worker_ship_config
    \/ "InvocationSources" \notin DOMAIN worker_ship_config
    \/ ~startswith(worker_ship_config["InvocationQueueUrl"], "https://")
    \/ ~(worker_ship_config["InvocationSources"] \subseteq InvocationSource)
    \/ /\ "EventBridgeTimedFrequency" \in DOMAIN worker_ship_config
       /\ worker_ship_config["EventBridgeTimedFrequency"] \notin EventBridgeFrequency
    \/ /\ "AlertConfiguration" \in DOMAIN worker_ship_config
       /\ validate_alert_configuration(worker_ship_config["AlertConfiguration"])

\* load_all_plugins: the loop over the discovered plugins, from an empty
\* registry; it stops at the first section with errors.
RECURSIVE ConfigurePlugins(_, _, _)
ConfigurePlugins(plugin_classes, config, ships) ==
    IF plugin_classes = <<>> THEN [ships |-> ships, raised |-> "None"]
    ELSE LET name == Head(plugin_classes)
             worker_ship_config == get(config, name, EmptyDict)
         IN IF ~Truthy(worker_ship_config)
            THEN ConfigurePlugins(Tail(plugin_classes), config, ships)
            ELSE IF validate(worker_ship_config)
            THEN [ships |-> ships, raised |-> "BadConfigurationError"]
            ELSE IF ~worker_ship_config["Enabled"]
            THEN ConfigurePlugins(Tail(plugin_classes), config, ships)
            ELSE ConfigurePlugins(Tail(plugin_classes), config, Append(ships, name))

load_all_plugins(config) == ConfigurePlugins(Plugins, config, <<>>)

\* The configuration sections a worker ship can be given.
Section(enabled, sources) ==
    [Enabled |-> enabled, TemplatePrefix |-> "Ship/",
     InvocationQueueUrl |-> "https://sqs.amazonaws.com/queue", InvocationSources |-> sources]

Sections == {
    Section(TRUE, {"S3"}),
    Section(FALSE, {"S3"}),
    Section(TRUE, {"EVENTBRIDGE_TIMED_EVENT"}) @@ [k \in {"EventBridgeTimedFrequency"} |-> "HOURLY"],
    Section(TRUE, {"S3", "EVENTBRIDGE_TIMED_EVENT"}),
    [TemplatePrefix |-> "Ship/", InvocationQueueUrl |-> "https://sqs.amazonaws.com/queue",
     InvocationSources |-> {"S3"}],
    [x \in {"InvocationSources"} |-> {"CRON"}] @@ Section(TRUE, {}),
    EmptyDict }

\* Every plugin has a section of one of these kinds, or none at all.
RegistryConfigurations ==
    UNION { [names -> Sections] : names \in SUBSET Range(Plugins) }

MaxCalls == 2

\* Nothing of the tasking pipeline is under way and no index is built.
PipelineIdle ==
    /\ IndexLoaded(<<>>)
    /\ lookup = <<>>
    /\ ResolveIdle
    /\ NoSendFails
    /\ plugins = EmptyDict
    /\ objects = EmptyDict
    /\ records = <<>>
    /\ s3_records = <<>>
    /\ runs = <<>>
    /\ event = [name |-> "None"]
    /\ bucket = <<>>
    /\ need_to_task = <<>>
    /\ worker_template_list = <<>>
    /\ start = 0
    /\ fanout_queue = <<>>
    /\ ship = NoShip
    /\ template_object = EmptyDict
    /\ original_template = EmptyDict
    /\ verified_template = EmptyDict
    /\ todo = <<>>
    /\ inner = <<>>
    /\ current_account = "None"
    /\ region_order = "ascending"
    /\ batch = <<>>
    /\ invocation_queue = <<>>
    /\ raised = "None"

\* Neither stage of the Starbase has run and no index is loaded.
StarbaseIdle ==
    /\ snapshot = <<>>
    /\ PipelineIdle

RegistryInit ==
    /\ pc = "registry"
    /\ StarbaseIdle
    /\ ProcessIdle
    /\ configuration \in RegistryConfigurations

\* STARFLEET_WORKER_SHIPS.get_worker_ships(), load_all_plugins included
GetWorkerShips ==
    /\ pc = "registry"
    /\ Len(got) < MaxCalls
    /\ IF worker_ships = None
       THEN LET loaded == load_all_plugins(configuration)
            IN /\ worker_ships' = [is_none |-> FALSE, ships |-> loaded.ships]
               /\ raised' = loaded.raised
               /\ got' = Append(got, IF loaded.raised # "None"
                                     THEN [outcome |-> loaded.raised, ships |-> <<>>]
                                     ELSE [outcome |-> "returned", ships |-> loaded.ships])
       ELSE /\ got' = Append(got, [outcome |-> "returned", ships |-> worker_ships.ships])
            /\ raised' = "None"
            /\ UNCHANGED worker_ships
    /\ UNCHANGED <<enrichVars, configVars, pc, snapshot, indexVars, lookup, resolveVars, ship, template_object,
                   original_template, verified_template, todo, inner, current_account,
                   region_order, batch, invocation_queue, timedVars, deliveryVars, sendVars,
                   workerVars, generatorVars>>

RegistryNext == GetWorkerShips

SpecRegistry == RegistryInit /\ [][RegistryNext]_vars

\* A section that is there for the plugin.
HasSection(name) == name \in DOMAIN configuration

\* The section fails WorkerShipBaseConfigurationTemplate: a required field is
\* missing or ill-typed, a value is outside its enumeration, or a worker
\* invoked by EVENTBRIDGE_TIMED_EVENT lacks its EventBridgeTimedFrequency.
FailsSchema(section) ==
    \/ {"Enabled", "TemplatePrefix", "InvocationQueueUrl", "InvocationSources"}
          \ DOMAIN section # {}
    \/ ~(section["InvocationSources"] \subseteq InvocationSource)
    \/ /\ "EventBridgeTimedFrequency" \in DOMAIN section
       /\ section["EventBridgeTimedFrequency"] \notin EventBridgeFrequency
    \/ /\ "EVENTBRIDGE_TIMED_EVENT" \in section["InvocationSources"]
       /\ "EventBridgeTimedFrequency" \notin DOMAIN section

\* C22: the first get_worker_ships of a process fails with
\* BadConfigurationError when a discovered plugin has a section that fails
\* its configuration schema; otherwise it returns exactly the plugins that
\* have a section with Enabled true, and plugins with no section or with
\* Enabled false are left out without error.
C22_RegistryLoad ==
    Len(got) >= 1 =>
        IF \E name \in Range(Plugins) : HasSection(name) /\ FailsSchema(configuration[name])
        THEN got[1].outcome = "BadConfigurationError"
        ELSE /\ got[1].outcome = "returned"
             /\ Range(got[1].ships) =
                   { name \in Range(Plugins) :
                        HasSection(name) /\ configuration[name]["Enabled"] }

\* C26: a get_worker_ships call that follows a failed one in the same process
\* does not return a registry as if loading had succeeded.
C26_NoLeftoverRegistry ==
    \A i, j \in DOMAIN got :
        (i < j /\ got[i].outcome # "returned") => got[j].outcome # "returned"

(***************************************************************************)
(* The worker ship instance and its alerts: worker_ships/ship_schematics.py *)
(***************************************************************************)
Some(value) == [is_none |-> FALSE, value |-> value]

\* StarfleetWorkerShip.__init__: no alert priority and no channel.
StarfleetWorkerShip == [is_none |-> FALSE, alert_priority |-> "NONE", alert_channel |-> None]

\* SLACK_CLIENT.post_info / post_success / post_important / post_problem:
\* the call as the client receives it.
Post(call, channel, title, body_markdown) ==
    [call |-> call, channel |-> channel, title |-> title, body_markdown |-> body_markdown]

\* send_alert with the comparison turned round.
send_alert_Reversed(self, message_priority, title, body_markdown) ==
    IF AlertPriority[self.alert_priority] <= AlertPriority[message_priority]
       /\ AlertPriority[message_priority] > AlertPriority["NONE"]
    THEN IF message_priority = "INFORMATIONAL"
         THEN <<Post("post_info", self.alert_channel, title, body_markdown)>>
         ELSE IF message_priority = "SUCCESS"
         THEN <<Post("post_success", self.alert_channel, title, body_markdown)>>
         ELSE IF message_priority = "IMPORTANT"
         THEN <<Post("post_important", self.alert_channel, title, body_markdown)>>
         ELSE IF message_priority = "PROBLEM"
         THEN <<Post("post_problem", self.alert_channel, title, body_markdown)>>
         ELSE <<>>
    ELSE <<>>

\* send_alert: the calls it makes on SLACK_CLIENT.
send_alert(self, message_priority, title, body_markdown) ==
    IF AlertPriority[self.alert_priority] >= AlertPriority[message_priority]
       /\ AlertPriority[message_priority] > AlertPriority["NONE"]
    THEN IF message_priority = "INFORMATIONAL"
         THEN <<Post("post_info", self.alert_channel, title, body_markdown)>>
         ELSE IF message_priority = "SUCCESS"
         THEN <<Post("post_success", self.alert_channel, title, body_markdown)>>
         ELSE IF message_priority = "IMPORTANT"
         THEN <<Post("post_important", self.alert_channel, title, body_markdown)>>
         ELSE IF message_priority = "PROBLEM"
         THEN <<Post("post_problem", self.alert_channel, title, body_markdown)>>
         ELSE <<>>
    ELSE <<>>

MaxAlerts == 2
Titles == {"Title", "Other title"}
Channels == {None, Some("pewpewpew")}

\* A worker ship whose alert fields have been set, as the tests of send_alert set them.
AlertInit ==
    /\ pc = "worker"
    /\ StarbaseIdle
    /\ LoaderIdle
    /\ EnrichIdle
    /\ ConfigIdle
    /\ GeneratorIdle
    /\ configuration = EmptyDict
    /\ worker_instance \in { [is_none |-> FALSE, alert_priority |-> priority, alert_channel |-> channel] :
                    priority \in DOMAIN AlertPriority, channel \in Channels }
    /\ alerts = <<>>
    /\ posted = <<>>

\* worker.send_alert(message_priority, title, body_markdown)
SendAlert ==
    /\ pc = "worker"
    /\ worker_instance # None
    /\ Len(alerts) < MaxAlerts
    /\ \E message_priority \in DOMAIN AlertPriority, title \in Titles :
          LET body_markdown == "Body of " \o title
          IN /\ alerts' = Append(alerts, [message_priority |-> message_priority, title |-> title,
                                      body_markdown |-> body_markdown])
             /\ posted' = posted \o send_alert(worker_instance, message_priority, title, body_markdown)
    /\ UNCHANGED <<enrichVars, configVars, loaderVars, generatorVars, worker_instance, pc, snapshot,
                   indexVars, lookup, resolveVars, fanVars,
                   timedVars, deliveryVars, sendVars>>

AlertNext == SendAlert

SpecAlert == AlertInit /\ [][AlertNext]_vars

PriorityOrder == <<"NONE", "PROBLEM", "IMPORTANT", "SUCCESS", "INFORMATIONAL">>

Rank(priority) == CHOOSE i \in DOMAIN PriorityOrder : PriorityOrder[i] = priority

\* The send_alert calls that are due a message, in the order they were made.
Due == SelectSeq(alerts, LAMBDA call : /\ Rank(worker_instance.alert_priority) >= Rank(call.message_priority)
                                     /\ Rank(call.message_priority) > Rank("NONE"))

\* C23: the notifier has received one message for each send_alert call whose
\* priority is above NONE and at most the worker's configured priority, with the
\* title and body of that call, and none for any other call; a worker with
\* priority NONE has emitted nothing.
C23_AlertIffPriority ==
    worker_instance # None =>
        /\ Len(posted) = Len(Due)
        /\ \A i \in DOMAIN posted :
              /\ posted[i].title = Due[i].title
              /\ posted[i].body_markdown = Due[i].body_markdown
              /\ posted[i].channel = worker_instance.alert_channel
        /\ worker_instance.alert_priority = "NONE" => posted = <<>>

C23_Witness ==
    /\ worker_instance # None
    /\ worker_instance.alert_priority = "IMPORTANT"
    /\ Len(alerts) = 2
    /\ alerts[1].message_priority = "SUCCESS"
    /\ alerts[2].message_priority = "PROBLEM"
    /\ Len(posted) = 1
    /\ posted[1].call = "post_problem"

(***************************************************************************)
(* The worker Lambda wrapper: worker_ships/lambda_utils.py                 *)
(***************************************************************************)
\* The worker ship class given to worker_lambda.
WorkerShipName == Head(Plugins)

\* The configuration sections of that worker: with and without an
\* AlertConfiguration, well formed or not.
AlertConfigurations ==
    { [ChannelId |-> "lol", AlertPriority |-> priority] :
        priority \in DOMAIN AlertPriority \cup {"LOUD"} }
    \cup {[AlertPriority |-> "SUCCESS"]}

WorkerSections ==
    {EmptyDict, Section(TRUE, {"S3"}), Section(FALSE, {"SQS"}),
     [TemplatePrefix |-> "Ship/", InvocationQueueUrl |-> "https://sqs.amazonaws.com/queue",
      InvocationSources |-> {"S3"}]}
    \cup { Section(TRUE, {"S3"}) @@ [AlertConfiguration |-> alert_configuration] :
            alert_configuration \in AlertConfigurations }

WorkerInit ==
    /\ pc = "worker"
    /\ StarbaseIdle
    /\ ProcessIdle
    /\ configuration \in {EmptyDict} \cup { (WorkerShipName :> section) : section \in WorkerSections }

\* wrapped_lambda_handler up to the call of the wrapped function, which gets
\* the worker instance; the function's send_alert calls are SendAlert steps.
WorkerLambda ==
    /\ pc = "worker"
    /\ worker_instance = None
    /\ raised = "None"
    /\ LET worker == StarfleetWorkerShip
           worker_config == get(configuration, WorkerShipName, EmptyDict)
       IN IF ~Truthy(worker_config) \/ validate(worker_config)
          THEN /\ raised' = "BadConfigurationError"
               /\ UNCHANGED worker_instance
          ELSE /\ worker_instance' = worker
               /\ UNCHANGED raised
    /\ UNCHANGED <<enrichVars, configVars, loaderVars, generatorVars, alerts, posted, pc, snapshot,
                   indexVars, lookup, resolveVars,
                   ship, template_object, original_template, verified_template, todo, inner,
                   current_account, region_order, batch, invocation_queue, timedVars,
                   deliveryVars, sendVars>>

WorkerNext == WorkerLambda \/ SendAlert

SpecWorker == WorkerInit /\ [][WorkerNext]_vars

\* C28: the worker handed to the wrapped function has the channel and the
\* priority of its section's AlertConfiguration when the section has one, and
\* no channel and priority NONE when it has none.
C28_AlertConfigurationApplied ==
    worker_instance # None =>
        LET section == configuration[WorkerShipName]
        IN IF "AlertConfiguration" \in DOMAIN section
           THEN /\ worker_instance.alert_channel = Some(section["AlertConfiguration"]["ChannelId"])
                /\ worker_instance.alert_priority = section["AlertConfiguration"]["AlertPriority"]
           ELSE /\ worker_instance.alert_channel = None
                /\ worker_instance.alert_priority = "NONE"

(***************************************************************************)
(* Keys the index does not know                                            *)
(***************************************************************************)
\* The last call was resolve_worker_template_accounts.
FrameResolved ==
    /\ loaded_template # NoTemplate
    /\ loaded_template.include_regions = {}
    /\ todo = <<>>

\* What the keys of a lookup that the index knows select.
KnownSelect(kind, keys) ==
    CASE kind = "ids" -> { a \in keys : a \in account_ids }
      [] kind = "aliases" ->
            { alias_map[lower(n)] : n \in { m \in keys : lower(m) \in DOMAIN alias_map } }
      [] kind = "tag" ->
            IF lower(keys.name) \in DOMAIN tag_map
               /\ lower(keys.value) \in DOMAIN tag_map[lower(keys.name)]
            THEN tag_map[lower(keys.name)][lower(keys.value)]
            ELSE {}
      [] kind = "ou" -> IF lower(keys) \in DOMAIN ou_map THEN ou_map[lower(keys)] ELSE {}
      [] kind = "regions" ->
            [region \in keys |-> IF region \in DOMAIN regions_map THEN regions_map[region] ELSE {}]

\* C24: a lookup answers with what its known keys select, the empty set for a
\* key the index does not know (for every region asked, when asking by
\* region); a resolution is the union of what the known keys of IncludeAccounts
\* select, less what those of ExcludeAccounts select and less the organization
\* roots when they are held back; and nothing is raised.
C24_UnknownKeysSelectNothing ==
    /\ raised = "None"
    /\ (lookup # <<>> /\ lookup[1] \in {"ids", "aliases", "tag", "ou", "regions"}) =>
          lookup[3] = KnownSelect(lookup[1], lookup[2])
    /\ FrameResolved =>
          resolved_accounts =
              { a \in account_ids :
                  /\ IncludeSelects(loaded_template, a)
                  /\ ~ExcludeSelects(loaded_template, a)
                  /\ loaded_template.operate_in_org_root \/ a \notin org_roots }

\* A selector naming a known and an unknown id resolved to the known one.
C24_Witness ==
    /\ FrameResolved
    /\ ~loaded_template.include_accounts.all_accounts
    /\ loaded_template.include_accounts.by_ids = {"02", "99"}
    /\ resolved_accounts = {"02"}
    /\ "99" \notin account_ids

(***************************************************************************)
(* The snapshot document: from the generator to the default index           *)
(***************************************************************************)
\* The account blobs of the generator, after enrichment, by account id.
AccountMapOf(accounts) ==
    [account_id \in { accounts[i].Id : i \in DOMAIN accounts } |->
        LET account == accounts[CHOOSE i \in DOMAIN accounts : accounts[i].Id = account_id]
        IN [Id |-> account.Id, Name |-> account.Name, Tags |-> account.Tags,
            Parents |-> account.Parents, Regions |-> account.Regions]]

AccountMaps == {EmptyDict} \cup { AccountMapOf(accounts) : accounts \in AscSnapshots(MaxFrameAccounts) }

Generated == "2023-01-01T00:00:00Z"

\* A member of a JSON object: its key, and its value with the value's type.
Item(key, type, value) == [key |-> key, type |-> type, value |-> value]

\* json.loads(json.dumps(dump_accounts, sort_keys=True)): the members of
\* the document in the order they are written and read back.
DumpedItems(accounts, generated) ==
    <<Item("accounts", "object", accounts), Item("generated", "string", generated)>>

SnapshotInit ==
    /\ pc = "generator"
    /\ StarbaseIdle
    /\ LoaderIdle
    /\ EnrichIdle
    /\ ConfigIdle
    /\ WorkerIdle
    /\ configuration = EmptyDict
    /\ account_map \in AccountMaps
    /\ dump_accounts = None

\* AccountIndexGeneratorShip.execute(commit=True): the save to S3.
SaveInventory ==
    /\ pc = "generator"
    /\ dump_accounts' = DumpedItems(account_map, Generated)
    /\ pc' = "saved"
    /\ UNCHANGED <<enrichVars, configVars, account_map, loaderVars, workerVars, snapshot, indexVars, lookup,
                   resolveVars, fanVars, timedVars, deliveryVars, sendVars>>

\* The loop of StarfleetDefaultAccountIndex.__init__ over account_dict.items():
\* the mappings it builds, or the exception that ends it.
RECURSIVE LoadItems(_, _)
LoadItems(st, items) ==
    IF items = <<>> THEN [st |-> st, raised |-> "None"]
    ELSE LET account_id == Head(items).key
             account == Head(items).value
         IN IF Head(items).type # "object" THEN [st |-> st, raised |-> "TypeError"]
            ELSE IF {"Name", "Regions", "Parents", "Tags"} \subseteq DOMAIN account
            THEN LoadItems(LoadAccount(st, [Id |-> account_id] @@ account), Tail(items))
            ELSE [st |-> st, raised |-> "MissingConfigurationError"]

\* StarfleetDefaultAccountIndex() on the saved document.
LoadSavedIndex ==
    /\ pc = "saved"
    /\ LET loaded == LoadItems(EmptyIndex, dump_accounts)
       IN IF loaded.raised = "None"
          THEN /\ account_ids' = loaded.st.account_ids
               /\ alias_map' = loaded.st.alias_map
               /\ ou_map' = OuMapOf(loaded.st)
               /\ regions_map' = loaded.st.regions_map
               /\ tag_map' = loaded.st.tag_map
               /\ UNCHANGED <<org_roots, raised>>
          ELSE /\ raised' = loaded.raised
               /\ UNCHANGED indexVars
    /\ pc' = "index"
    /\ UNCHANGED <<processVars, snapshot, lookup, resolveVars, ship, template_object,
                   original_template, verified_template, todo, inner, current_account,
                   region_order, batch, invocation_queue, timedVars, deliveryVars, sendVars>>

SnapshotNext == SaveInventory \/ LoadSavedIndex

SpecSnapshot == SnapshotInit /\ [][SnapshotNext]_vars

\* C25: the index built from the document the generator saved has the
\* generator's account ids as its accounts, and holds each of them under its
\* Name, under each of its Regions, under the Id and the Name of each of its
\* Parents and under each of its Tags.
C25_IndexOfGeneratedSnapshot ==
    pc = "index" =>
        /\ raised = "None"
        /\ account_ids = DOMAIN account_map
        /\ \A account_id \in DOMAIN account_map :
              LET account == account_map[account_id]
              IN /\ get_accounts_by_aliases({account.Name}) = {account_id}
                 /\ \A region \in account.Regions : account_id \in get(regions_map, region, {})
                 /\ \A i \in DOMAIN account.Parents :
                       /\ account_id \in get_accounts_by_ou(account.Parents[i].Id)
                       /\ account_id \in get_accounts_by_ou(account.Parents[i].Name)
                 /\ \A tag_name \in DOMAIN account.Tags :
                       account_id \in get_accounts_by_tag(tag_name, account.Tags[tag_name])

(***************************************************************************)
(* The configuration loader: utils/configuration.py                        *)
(***************************************************************************)
LogLevels == {"CRITICAL", "ERROR", "WARNING", "INFO", "DEBUG", "NOTSET"}

\* StarfleetSchema().validate(section), verify_schema included.
validate_starfleet(section) ==
    \/ "DeploymentRegion" \notin DOMAIN section
    \/ "TemplateBucket" \notin DOMAIN section
    \/ "FanOutQueueUrl" \notin DOMAIN section
    \/ section["DeploymentRegion"] \notin SupportedRegions
    \/ ~startswith(section["FanOutQueueUrl"], "https://")
    \/ "LogLevel" \in DOMAIN section /\ section["LogLevel"] \notin LogLevels
    \/ /\ "SlackEnabled" \in DOMAIN section
       /\ section["SlackEnabled"]
       /\ "SecretsManager" \notin DOMAIN section

\* BaseConfigurationSchema().validate(app_config)
validate_base_configuration(config) ==
    \/ "STARFLEET" \notin DOMAIN config
    \/ validate_starfleet(config["STARFLEET"])

\* The loop over the files: _app_config.update(loaded) for each.
RECURSIVE UpdateAll(_, _)
UpdateAll(config, loaded_files) ==
    IF loaded_files = <<>> THEN config
    ELSE UpdateAll(Head(loaded_files) @@ config, Tail(loaded_files))

\* load_base_configuration: the mapping left in _app_config and what is raised.
load_base_configuration(loaded_files) ==
    LET merged == UpdateAll(EmptyDict, loaded_files)
    IN [app_config |-> merged,
        raised |-> IF validate_base_configuration(merged)
                   THEN "BadConfigurationError" ELSE "None"]

\* What the files of the configuration directory can hold.
StarfleetSection ==
    [DeploymentRegion |-> "us-east-1", TemplateBucket |-> "template-bucket",
     FanOutQueueUrl |-> "https://sqs.amazonaws.com/fanout"]

FileContents == {
    [STARFLEET |-> StarfleetSection],
    [STARFLEET |-> StarfleetSection @@ [LogLevel |-> "DEBUG"]],
    [STARFLEET |-> [StarfleetSection EXCEPT !.FanOutQueueUrl = "http://sqs.amazonaws.com/fanout"]],
    [STARFLEET |-> StarfleetSection @@ [SlackEnabled |-> TRUE]],
    [STARFLEET |-> [TemplateBucket |-> "template-bucket"]],
    [ShipA |-> Section(TRUE, {"S3"})],
    EmptyDict }

MaxFiles == 2

ConfigInit ==
    /\ pc = "config"
    /\ StarbaseIdle
    /\ LoaderIdle
    /\ EnrichIdle
    /\ WorkerIdle
    /\ GeneratorIdle
    /\ configuration = EmptyDict
    /\ app_config = None
    /\ configuration_files \in UNION { [1..n -> FileContents] : n \in 0..MaxFiles }

\* A falsy _app_config is None or an empty mapping.
NotLoaded(config) == config = None \/ ~Truthy(config.value)

\* STARFLEET_CONFIGURATION.config, load_base_configuration included
ReadConfig ==
    /\ pc = "config"
    /\ Len(got) < MaxCalls
    /\ IF NotLoaded(app_config)
       THEN LET loaded == load_base_configuration(configuration_files)
            IN /\ app_config' = Some(loaded.app_config)
               /\ raised' = loaded.raised
               /\ got' = Append(got, IF loaded.raised # "None"
                                     THEN [outcome |-> loaded.raised, config |-> EmptyDict]
                                     ELSE [outcome |-> "returned", config |-> loaded.app_config])
       ELSE /\ got' = Append(got, [outcome |-> "returned", config |-> app_config.value])
            /\ raised' = "None"
            /\ UNCHANGED app_config
    /\ UNCHANGED <<enrichVars, configuration_files, worker_ships, workerVars, generatorVars, pc, snapshot,
                   indexVars, lookup, resolveVars, ship, template_object, original_template,
                   verified_template, todo, inner, current_account, region_order, batch,
                   invocation_queue, timedVars, deliveryVars, sendVars>>

ConfigNext == ReadConfig

SpecConfig == ConfigInit /\ [][ConfigNext]_vars

\* C27: once a read of config has failed with BadConfigurationError, every
\* later read in the same process fails with it again.
C27_FailedLoadStaysFailed ==
    \A i, j \in DOMAIN got :
        (i < j /\ got[i].outcome = "BadConfigurationError")
            => got[j].outcome = "BadConfigurationError"

(***************************************************************************)
(* The generator's parent chains: account_index_generator/utils.py         *)
(***************************************************************************)
OuTeam == [Id |-> "ou-4", Name |-> "Team", Type |-> "ORGANIZATIONAL_UNIT"]

\* The organization: each OU and the parent that list_parents returns for it.
OrgUnits == {OuDev1, OuDev2, OuProd, OuTeam}

OrgParent == [ou_id \in {"ou-1", "ou-2", "ou-3", "ou-4"} |->
                 CASE ou_id = "ou-1" -> ROOT.Id
                   [] ou_id = "ou-2" -> ROOT.Id
                   [] ou_id = "ou-3" -> "ou-1"
                   [] ou_id = "ou-4" -> "ou-3"]

OrgUnit(ou_id) == CHOOSE ou \in OrgUnits : ou.Id = ou_id

\* execute(): resolved_parent_map before the enrichment, from the OUs listed
\* under the root.
InitialParentMap ==
    [ou_id \in { id \in DOMAIN OrgParent : OrgParent[id] = ROOT.Id } \cup {ROOT.Id} |->
        IF ou_id = ROOT.Id THEN <<ROOT>> ELSE <<OrgUnit(ou_id), ROOT>>]

\* One call of the Organizations API: whether it succeeds, and the outcomes
\* left for the calls after it. Calls beyond the given outcomes succeed.
ApiCall(outcomes) ==
    [ok |-> outcomes = <<>> \/ Head(outcomes),
     rest |-> IF outcomes = <<>> THEN <<>> ELSE Tail(outcomes)]

Tries == 3

Raised(memo, outcomes) ==
    [memo |-> memo, outcomes |-> outcomes, parents |-> <<>>, raised |-> "ClientError"]

\* resolve_parents, body and @retry: body(ou_id, ...) is one run of the body,
\* which calls the decorated function for the parent; the decorated function
\* runs the body again after an exception, up to Tries runs in all.
RECURSIVE resolve_parents_body(_, _, _)
RECURSIVE resolve_parents(_, _, _, _)
resolve_parents_body(ou_id, memo, outcomes) ==
    IF get(memo, ou_id, <<>>) # <<>>
    THEN [memo |-> memo, outcomes |-> outcomes, parents |-> memo[ou_id], raised |-> "None"]
    ELSE LET ou_response == ApiCall(outcomes)
         IN IF ~ou_response.ok THEN Raised(memo, ou_response.rest)
            ELSE LET resolved_ou == OrgUnit(ou_id)
                     stored == setitem(memo, ou_id, <<resolved_ou>>)
                     returned_parents == ApiCall(ou_response.rest)
                 IN IF ~returned_parents.ok THEN Raised(stored, returned_parents.rest)
                    ELSE LET above == resolve_parents(OrgParent[ou_id], stored,
                                                      returned_parents.rest, Tries)
                         IN IF above.raised # "None" THEN Raised(above.memo, above.outcomes)
                            ELSE LET extended == [above.memo EXCEPT ![ou_id] = @ \o above.parents]
                                 IN [memo |-> extended, outcomes |-> above.outcomes,
                                     parents |-> extended[ou_id], raised |-> "None"]

resolve_parents(ou_id, memo, outcomes, tries) ==
    LET run == resolve_parents_body(ou_id, memo, outcomes)
    IN IF run.raised = "None" \/ tries = 1 THEN run
       ELSE resolve_parents(ou_id, run.memo, run.outcomes, tries - 1)

MaxApiOutcomes == 3
MaxResolves == 2

ParentsInit ==
    /\ pc = "parents"
    /\ StarbaseIdle
    /\ LoaderIdle
    /\ WorkerIdle
    /\ GeneratorIdle
    /\ ConfigIdle
    /\ configuration = EmptyDict
    /\ resolved_parents = InitialParentMap
    /\ api_outcomes \in UNION { [1..n -> BOOLEAN] : n \in 0..MaxApiOutcomes }
    /\ parent_calls = <<>>
    /\ futures = EmptyDict
    /\ completed = <<>>

\* fetch_additional_details: resolve_parents for the parent of one more
\* account; an exception that outlasts the retries ends the enrichment.
ResolveParents ==
    /\ pc = "parents"
    /\ Len(parent_calls) < MaxResolves
    /\ \E ou_id \in DOMAIN OrgParent \cup {ROOT.Id} :
          LET call == resolve_parents(ou_id, resolved_parents, api_outcomes, Tries)
          IN /\ resolved_parents' = call.memo
             /\ api_outcomes' = call.outcomes
             /\ parent_calls' = Append(parent_calls, [ou_id |-> ou_id, parents |-> call.parents,
                                                      raised |-> call.raised])
             /\ raised' = call.raised
             /\ pc' = IF call.raised = "None" THEN "parents" ELSE "failed"
    /\ UNCHANGED <<futures, completed, configVars, loaderVars, workerVars, generatorVars,
                   snapshot, indexVars, lookup, resolveVars, ship, template_object,
                   original_template, verified_template, todo, inner, current_account,
                   region_order, batch, invocation_queue, timedVars, deliveryVars, sendVars>>

ParentsNext == ResolveParents

SpecParents == ParentsInit /\ [][ParentsNext]_vars

\* A chain that starts at the OU and ends at the organization root.
ChainToRoot(ou_id, parents) ==
    /\ parents # <<>>
    /\ parents[1].Id = ou_id
    /\ parents[Len(parents)].Type = "ROOT"

\* C29: every chain resolve_parents has returned, and every chain the memo map
\* holds between two calls, starts at its OU and ends at the ROOT element, also
\* when an API call failed on the way and the call was retried.
C29_ChainsEndAtRoot ==
    /\ \A i \in DOMAIN parent_calls :
          parent_calls[i].raised = "None"
              => ChainToRoot(parent_calls[i].ou_id, parent_calls[i].parents)
    /\ pc = "parents" =>
          \A ou_id \in DOMAIN resolved_parents : ChainToRoot(ou_id, resolved_parents[ou_id])

(***************************************************************************)
(* The generator's parallel enrichment: fetch_additional_details            *)
(***************************************************************************)
\* The organization the generator reads: account i and what the APIs hold for it.
PoolProfile(i) == CASE i = 1 -> ProfileProd [] i = 2 -> ProfileDev [] OTHER -> ProfileRoot

MaxPoolAccounts == 2

PoolSnapshots ==
    { [k \in DOMAIN ids |-> Account(ids[k], PoolProfile(ids[k]))] :
        ids \in AscendingIds(MaxPoolAccounts) }

\* get_account_map(all_accounts): the blobs as list_accounts returns them.
get_account_map(account_list) ==
    [account_id \in { account_list[i].Id : i \in DOMAIN account_list } |->
        LET account == account_list[CHOOSE i \in DOMAIN account_list : account_list[i].Id = account_id]
        IN [Id |-> account.Id, Name |-> account.Name]]

\* all_accounts.keys(), in the order of the listing
Keys(account_list) == [i \in DOMAIN account_list |-> account_list[i].Id]

InOrganization(account_id) ==
    snapshot[CHOOSE i \in DOMAIN snapshot : snapshot[i].Id = account_id]

\* fetch_tags_and_parent and fetch_regions: what a pooled task returns.
fetch_tags_and_parent(account_id) ==
    LET account == InOrganization(account_id)
    IN [account_id |-> account_id, tags |-> account.Tags,
        parent |-> <<[Id |-> account.Parents[1].Id, Type |-> account.Parents[1].Type]>>]

fetch_regions(account_id) ==
    [account_id |-> account_id, regions |-> InOrganization(account_id).Regions]

Pending == [state |-> "pending"]
Failed == [state |-> "failed"]
Done(result) == [state |-> "done", result |-> result]

EnrichInit ==
    /\ pc = "enrich"
    /\ PipelineIdle
    /\ LoaderIdle
    /\ WorkerIdle
    /\ ConfigIdle
    /\ configuration = EmptyDict
    /\ snapshot \in PoolSnapshots
    /\ account_map = get_account_map(snapshot)
    /\ dump_accounts = None
    /\ resolved_parents = InitialParentMap
    /\ api_outcomes \in {<<>>, <<TRUE, FALSE>>}
    /\ parent_calls = <<>>
    /\ futures = EmptyDict
    /\ completed = <<>>

\* fetch_additional_async: one task of each kind per account goes to the pool.
SubmitTasks ==
    /\ pc = "enrich"
    /\ futures' = [task \in {"tags", "regions"} \X DOMAIN account_map |-> Pending]
    /\ pc' = "pool"
    /\ UNCHANGED <<resolved_parents, api_outcomes, parent_calls, completed, account_map,
                   dump_accounts, configVars, loaderVars, workerVars, snapshot, indexVars,
                   lookup, resolveVars, fanVars, timedVars, deliveryVars, sendVars>>

\* A pooled task ends: with its result, or with the exception its last try raised.
TaskCompletes ==
    /\ pc = "pool"
    /\ \E task \in DOMAIN futures, ok \in BOOLEAN :
          /\ futures[task] = Pending
          /\ futures' = [futures EXCEPT ![task] =
                            IF ~ok THEN Failed
                            ELSE IF task[1] = "tags" THEN Done(fetch_tags_and_parent(task[2]))
                            ELSE Done(fetch_regions(task[2]))]
          /\ completed' = Append(completed, task)
    /\ UNCHANGED <<resolved_parents, api_outcomes, parent_calls, account_map, dump_accounts,
                   configVars, loaderVars, workerVars, pc, snapshot, indexVars, lookup,
                   resolveVars, fanVars, timedVars, deliveryVars, sendVars>>

NonePending == \A task \in DOMAIN futures : futures[task] # Pending

\* asyncio.gather over the tasks of one kind: their results in task order.
gather(kind) == [i \in DOMAIN snapshot |-> futures[<<kind, Keys(snapshot)[i]>>].result]

\* The pool has shut down and a gather has raised the exception of a task.
GatherRaises ==
    /\ pc = "pool"
    /\ NonePending
    /\ \E task \in DOMAIN futures : futures[task] = Failed
    /\ raised' = "AccountIndexerProcessError"
    /\ pc' = "done"
    /\ UNCHANGED <<enrichVars, account_map, dump_accounts, configVars, loaderVars, workerVars,
                   snapshot, indexVars, lookup, resolveVars, ship, template_object,
                   original_template, verified_template, todo, inner, current_account,
                   region_order, batch, invocation_queue, timedVars, deliveryVars, sendVars>>

\* The merge of the tags and of the resolved parents, result by result.
RECURSIVE MergeTagsAndParents(_, _, _, _)
MergeTagsAndParents(all_accounts, results, memo, outcomes) ==
    IF results = <<>>
    THEN [all_accounts |-> all_accounts, memo |-> memo, outcomes |-> outcomes, raised |-> "None"]
    ELSE LET result == Head(results)
             tagged == [all_accounts EXCEPT ![result.account_id] = setitem(@, "Tags", result.tags)]
             parent_ous == resolve_parents(result.parent[1].Id, memo, outcomes, Tries)
         IN IF parent_ous.raised # "None"
            THEN [all_accounts |-> tagged, memo |-> parent_ous.memo,
                  outcomes |-> parent_ous.outcomes, raised |-> parent_ous.raised]
            ELSE MergeTagsAndParents(
                     [tagged EXCEPT ![result.account_id] = setitem(@, "Parents", parent_ous.parents)],
                     Tail(results), parent_ous.memo, parent_ous.outcomes)

\* The merge of the regions, giving the i-th account the regions of the i-th
\* task to complete.
MergeRegionsAsCompleted(all_accounts, results) ==
    LET done == SelectSeq(completed, LAMBDA task : task[1] = "regions")
    IN [account_id \in DOMAIN all_accounts |->
           IF \E i \in DOMAIN results : results[i].account_id = account_id
           THEN LET last == CHOOSE i \in DOMAIN results :
                                /\ results[i].account_id = account_id
                                /\ \A j \in DOMAIN results :
                                      results[j].account_id = account_id => j <= i
                IN setitem(all_accounts[account_id], "Regions",
                           futures[done[last]].result.regions)
           ELSE all_accounts[account_id]]

\* The merge of the regions: each account gets the regions of the last result
\* that carries its id.
MergeRegions(all_accounts, results) ==
    [account_id \in DOMAIN all_accounts |->
        IF \E i \in DOMAIN results : results[i].account_id = account_id
        THEN LET last == CHOOSE i \in DOMAIN results :
                             /\ results[i].account_id = account_id
                             /\ \A j \in DOMAIN results :
                                   results[j].account_id = account_id => j <= i
             IN setitem(all_accounts[account_id], "Regions", results[last].regions)
        ELSE all_accounts[account_id]]

\* fetch_additional_details once both gathers have returned: the merges.
MergeResults ==
    /\ pc = "pool"
    /\ NonePending
    /\ \A task \in DOMAIN futures : futures[task] # Failed
    /\ LET merged == MergeTagsAndParents(account_map, gather("tags"), resolved_parents,
                                         api_outcomes)
       IN /\ account_map' = IF merged.raised = "None"
                            THEN MergeRegions(merged.all_accounts, gather("regions"))
                            ELSE merged.all_accounts
          /\ resolved_parents' = merged.memo
          /\ api_outcomes' = merged.outcomes
          /\ raised' = merged.raised
    /\ pc' = "done"
    /\ UNCHANGED <<parent_calls, futures, completed, dump_accounts, configVars, loaderVars,
                   workerVars, snapshot, indexVars, lookup, resolveVars, ship, template_object,
                   original_template, verified_template, todo, inner, current_account,
                   region_order, batch, invocation_queue, timedVars, deliveryVars, sendVars>>

EnrichNext == SubmitTasks \/ TaskCompletes \/ GatherRaises \/ MergeResults

SpecEnrich == EnrichInit /\ [][EnrichNext]_vars

\* C30: when the enrichment has returned normally, every account of the map
\* has the Tags and the Regions fetched for its own id and, as Parents, the
\* chain resolved for the parent fetched for its own id; when a pooled task
\* has failed, the enrichment has ended with AccountIndexerProcessError.
C30_EnrichmentByAccount ==
    pc = "done" =>
        /\ raised = "None" =>
              \A account_id \in DOMAIN account_map :
                  LET account == account_map[account_id]
                      fetched == InOrganization(account_id)
                  IN /\ {"Tags", "Parents", "Regions"} \subseteq DOMAIN account
                     /\ account["Tags"] = fetched.Tags
                     /\ account["Regions"] = fetched.Regions
                     /\ account["Parents"][1].Id = fetched.Parents[1].Id
                     /\ account["Parents"] = resolved_parents[fetched.Parents[1].Id]
        /\ (\E task \in DOMAIN futures : futures[task] = Failed)
              => raised = "AccountIndexerProcessError"

\* Two accounts enriched although the tasks of the second completed first.
C30_Witness ==
    /\ pc = "done"
    /\ raised = "None"
    /\ Len(snapshot) = 2
    /\ completed[1] = <<"regions", "02">>
    /\ completed[2] = <<"tags", "02">>
    /\ account_map["01"]["Regions"] # account_map["02"]["Regions"]

====
